---- MODULE Spec2Model ----
(***************************************************************************)
(* Model of the sequence ledger of candle-nano-vllm                        *)
(* (crates/common/src/sequence.rs, crates/common/src/sampling.rs).         *)
(*                                                                         *)
(* The state is the process-wide id counter SEQ_COUNTER, the Sequence      *)
(* values alive in the process, and the position of every thread that is   *)
(* inside Sequence::new.  Sequence::new is split at its only shared-memory *)
(* access, the atomic fetch_add of next_seq_id, so that concurrent         *)
(* creations interleave as they do in the program.                         *)
(*                                                                         *)
(* usize is not given a width: the counter starts at 0 and is advanced by  *)
(* one per creation, so 2^64 is out of reach of any run of the program.    *)
(***************************************************************************)
EXTENDS Integers, Sequences, FiniteSets, TLC

(***************************************************************************)
(* Bounds of the model.                                                    *)
(***************************************************************************)
\* Sequence values alive at once.
MaxSeqs == 2
\* append_token calls in a run.
MaxAppends == 2

\* The threads that call Sequence::new concurrently.
Threads == {"t1", "t2"}

(***************************************************************************)
(* sequence.rs: constants and types.                                       *)
(***************************************************************************)
BLOCK_SIZE == 256

SequenceStatus == {"Waiting", "Running", "Finished"}

SequenceStatus_default == "Waiting"

\* Token ids given to append_token: an ordinary token and the token the
\* model configuration declares as end-of-sequence.
OrdinaryToken == 1
EosToken == 2
TokenValues == {OrdinaryToken, EosToken}

Fill(n, tok) == [i \in 1 .. n |-> tok]

(***************************************************************************)
(* sampling.rs: SamplingParams.  temperature is an f32 that the ledger     *)
(* only copies; it is kept as the literal it was written as.               *)
(***************************************************************************)
default_temperature == "1.0"

default_max_tokens == 1024

SamplingParams_default ==
  [temperature |-> default_temperature,
   max_tokens  |-> default_max_tokens,
   ignore_eos  |-> FALSE]

\* Greedy sampling of a single token, past end-of-sequence.
GreedyOneToken == [temperature |-> "0.0", max_tokens |-> 1, ignore_eos |-> TRUE]

\* The calls of Sequence::new that are made: (token_ids, params).
Requests ==
  { [token_ids |-> <<>>,                     params |-> SamplingParams_default],
    [token_ids |-> <<7>>,                    params |-> GreedyOneToken],
    [token_ids |-> <<7, 8, 9>>,              params |-> SamplingParams_default],
    [token_ids |-> Fill(BLOCK_SIZE - 1, 7),  params |-> SamplingParams_default],
    [token_ids |-> Fill(BLOCK_SIZE, 7),      params |-> GreedyOneToken] }

VARIABLES
  SEQ_COUNTER,  \* static SEQ_COUNTER: AtomicUsize
  seqs,         \* the Sequence values alive in the process, oldest first
  thr,          \* per thread: where it is inside Sequence::new, and its locals
  meta,         \* history of seqs[i]: how it was obtained, the request it
                \* stands for, its prompt at creation, the tokens appended
  issued,       \* history: the values next_seq_id returned, in order
  alloc,        \* the external block allocator: the values it has served,
                \* and the values that were appended to since it last
                \* served them
  CONTEXT,      \* static CONTEXT: the Option<Context> inside the Mutex
  mutex,        \* the Mutex of CONTEXT: <<>> when free, else <<its holder>>
  call,         \* per thread: where it is inside get_context / set_context,
                \* its arguments, its partial copy, and what its last
                \* get_context returned
  loader,       \* the model whose weights are loaded: whether it is built,
                \* its packed-modules mapping as an Option, and the name
                \* resolutions so far: the tensor name, the iteration order
                \* the mapping had, and the outcome
  hist,         \* history of CONTEXT: the arguments of the last set_context
                \* that took the lock and of the one before it, the
                \* get_context calls that returned since, and per thread
                \* what had been set when its get_context took the lock
  load,         \* the running load_model call: its position, its arguments,
                \* the entries of its glob iterator, the tensors of the open
                \* file still to process, the calls of load_weight made, the
                \* warnings printed, and its result once it has returned
  converted,    \* the convert_dtype calls made: argument and result
  configs,      \* the results of Config::new and of deserializing a Config
  batch         \* per thread: where it is in a batch step that sets its own
                \* snapshot and then reads the slot

ledger == <<SEQ_COUNTER, seqs, thr, meta, issued>>

context == <<CONTEXT, mutex, call, hist>>

\* The variables of the weight loading, of the configuration and of the
\* batch steps.
extras == <<load, converted, configs, batch>>

vars ==
  <<SEQ_COUNTER, seqs, thr, meta, issued, alloc, CONTEXT, mutex, call, hist,
    loader, load, converted, configs, batch>>

(***************************************************************************)
(* next_seq_id: SEQ_COUNTER.fetch_add(1, Relaxed).  The call returns the   *)
(* value before the addition; fetch_add is the value stored.               *)
(***************************************************************************)
fetch_add_lost(counter, n) == counter

fetch_add(counter, n) == counter + n

new_assert_missing(token_ids) == TRUE

\* assert!(!token_ids.is_empty(), ...)
new_assert(token_ids) == Len(token_ids) # 0

Sequence_new_running(token_ids, params, seq_id) ==
  [seq_id            |-> seq_id,
   status            |-> "Running",
   token_ids         |-> token_ids,
   last_token_id     |-> token_ids[Len(token_ids)],
   num_tokens        |-> Len(token_ids),
   num_prompt_tokens |-> Len(token_ids),
   num_cached_tokens |-> 0,
   block_table       |-> <<>>,
   temperature       |-> params.temperature,
   max_tokens        |-> params.max_tokens,
   ignore_eos        |-> params.ignore_eos]

\* The struct literal of Sequence::new, once the id is known.
Sequence_new(token_ids, params, seq_id) ==
  [seq_id            |-> seq_id,
   status            |-> "Waiting",
   token_ids         |-> token_ids,
   last_token_id     |-> token_ids[Len(token_ids)],
   num_tokens        |-> Len(token_ids),
   num_prompt_tokens |-> Len(token_ids),
   num_cached_tokens |-> 0,
   block_table       |-> <<>>,
   temperature       |-> params.temperature,
   max_tokens        |-> params.max_tokens,
   ignore_eos        |-> params.ignore_eos]

(***************************************************************************)
(* Accessors of Sequence.                                                  *)
(***************************************************************************)
num_completion_tokens(s) == s.num_tokens - s.num_prompt_tokens

prompt_token_ids(s) == SubSeq(s.token_ids, 1, s.num_prompt_tokens)

completion_token_ids_off_by_one(s) ==
  SubSeq(s.token_ids, s.num_prompt_tokens, Len(s.token_ids))

completion_token_ids(s) ==
  SubSeq(s.token_ids, s.num_prompt_tokens + 1, Len(s.token_ids))

num_cached_blocks(s) == s.num_cached_tokens \div BLOCK_SIZE

num_blocks_floor(s) == s.num_tokens \div BLOCK_SIZE

num_blocks_plus_one(s) == (s.num_tokens + BLOCK_SIZE) \div BLOCK_SIZE

num_blocks(s) == (s.num_tokens + BLOCK_SIZE - 1) \div BLOCK_SIZE

last_block_num_tokens(s) ==
  LET nb == num_blocks(s)
  IN  IF nb = 0 THEN 0 ELSE s.num_tokens - (nb - 1) * BLOCK_SIZE

(***************************************************************************)
(* Operations that panic return <<>>; those that return v return <<v>>.    *)
(***************************************************************************)
Min(a, b) == IF a <= b THEN a ELSE b

\* &v[start..end] with 0-based, end-exclusive bounds: panics when
\* start > end or end > v.len().
Slice(v, start, end) ==
  IF start > end \/ end > Len(v) THEN <<>> ELSE <<SubSeq(v, start + 1, end)>>

block_inclusive(s, i) ==
  IF ~(i <= num_blocks(s))
  THEN <<>>
  ELSE Slice(s.token_ids, i * BLOCK_SIZE,
             Min((i + 1) * BLOCK_SIZE, Len(s.token_ids)))

block_shifted(s, i) ==
  IF ~(i < num_blocks(s))
  THEN <<>>
  ELSE IF i = 0
  THEN Slice(s.token_ids, 0, Min(BLOCK_SIZE, Len(s.token_ids)))
  ELSE Slice(s.token_ids, i * BLOCK_SIZE - 1,
             Min((i + 1) * BLOCK_SIZE, Len(s.token_ids)) - 1)

\* Sequence::block
block(s, i) ==
  IF ~(i < num_blocks(s))
  THEN <<>>
  ELSE Slice(s.token_ids, i * BLOCK_SIZE,
             Min((i + 1) * BLOCK_SIZE, Len(s.token_ids)))

index_clamped(s, p) == <<s.token_ids[Min(p, Len(s.token_ids) - 1) + 1]>>

\* impl Index<usize> for Sequence: &self.token_ids[index]
index(s, p) == IF p < Len(s.token_ids) THEN <<s.token_ids[p + 1]>> ELSE <<>>

append_token_counts_cached(s, token_id) ==
  [s EXCEPT !.token_ids         = Append(@, token_id),
            !.last_token_id     = token_id,
            !.num_tokens        = @ + 1,
            !.num_cached_tokens = @ + 1]

append_token_no_count(s, token_id) ==
  [s EXCEPT !.token_ids = Append(@, token_id), !.last_token_id = token_id]

append_token_finishes(s, token_id) ==
  [s EXCEPT !.token_ids     = Append(@, token_id),
            !.last_token_id = token_id,
            !.num_tokens    = @ + 1,
            !.status        = IF (token_id = EosToken /\ ~s.ignore_eos)
                                 \/ s.num_tokens + 1 - s.num_prompt_tokens >= s.max_tokens
                              THEN "Finished" ELSE @]

append_token_overwrites(s, token_id) ==
  [s EXCEPT !.token_ids     = [@ EXCEPT ![Len(@)] = token_id] \o <<token_id>>,
            !.last_token_id = token_id,
            !.num_tokens    = @ + 1]

append_token_stale_last(s, token_id) ==
  [s EXCEPT !.token_ids = Append(@, token_id), !.num_tokens = @ + 1]

\* Sequence::append_token, lines 343-347.
append_token(s, token_id) ==
  [s EXCEPT !.token_ids     = Append(@, token_id),
            !.last_token_id = token_id,
            !.num_tokens    = @ + 1]

(***************************************************************************)
(* Saved states given to Deserialize (derive(Deserialize) of Sequence).    *)
(* A field with #[serde(default ...)] may be absent: <<>> is absent, <<v>> *)
(* is present with value v.  The other fields are required.  SavedRunning  *)
(* is what derive(Serialize) wrote for a running sequence that was the     *)
(* first one of an earlier process; SavedBare carries the required fields  *)
(* alone.                                                                  *)
(***************************************************************************)
SavedRunning ==
  [seq_id            |-> <<0>>,
   status            |-> <<"Running">>,
   token_ids         |-> <<7, 8, 1>>,
   last_token_id     |-> 1,
   num_tokens        |-> 3,
   num_prompt_tokens |-> 2,
   num_cached_tokens |-> <<2>>,
   block_table       |-> << <<4>> >>,
   temperature       |-> "1.0",
   max_tokens        |-> 1024,
   ignore_eos        |-> FALSE]

SavedBare ==
  [seq_id            |-> <<>>,
   status            |-> <<>>,
   token_ids         |-> <<7, 8>>,
   last_token_id     |-> 8,
   num_tokens        |-> 2,
   num_prompt_tokens |-> 2,
   num_cached_tokens |-> <<>>,
   block_table       |-> <<>>,
   temperature       |-> "0.0",
   max_tokens        |-> 1,
   ignore_eos        |-> TRUE]

Docs == {SavedRunning, SavedBare}

\* The request a saved state stands for: requests of earlier processes are
\* numbered from 0 downwards, those of this process from 1 upwards.
DocRequest(doc) == IF doc = SavedRunning THEN 0 ELSE -1

\* What serde takes for a field: the document's value, else the default.
OrDefault(field, dflt) == IF field = <<>> THEN dflt ELSE field[1]

\* derive(Deserialize): seq_id defaults to next_seq_id(), given here as the
\* value that call returns; status, num_cached_tokens and block_table
\* default to Default::default().
Sequence_deserialize(doc, fresh_id) ==
  [seq_id            |-> OrDefault(doc.seq_id, fresh_id),
   status            |-> OrDefault(doc.status, SequenceStatus_default),
   token_ids         |-> doc.token_ids,
   last_token_id     |-> doc.last_token_id,
   num_tokens        |-> doc.num_tokens,
   num_prompt_tokens |-> doc.num_prompt_tokens,
   num_cached_tokens |-> OrDefault(doc.num_cached_tokens, 0),
   block_table       |-> OrDefault(doc.block_table, <<>>),
   temperature       |-> doc.temperature,
   max_tokens        |-> doc.max_tokens,
   ignore_eos        |-> doc.ignore_eos]

(***************************************************************************)
(* context.rs: struct Context.  A Tensor is a handle to shared storage and *)
(* is stood for by the name of its storage; an Option is <<>> when None    *)
(* and <<v>> when Some(v).                                                 *)
(***************************************************************************)
ContextFields ==
  {"is_prefill", "cu_seqlens_q", "cu_seqlens_k", "max_seqlen_q",
   "max_seqlen_k", "slot_mapping", "context_lens", "block_tables"}

OptionalFields ==
  {"cu_seqlens_q", "cu_seqlens_k", "slot_mapping", "context_lens",
   "block_tables"}

Context_default_prefill ==
  [is_prefill |-> TRUE, cu_seqlens_q |-> <<>>, cu_seqlens_k |-> <<>>,
   max_seqlen_q |-> 0, max_seqlen_k |-> 0, slot_mapping |-> <<>>,
   context_lens |-> <<>>, block_tables |-> <<>>]

\* impl Default for Context.
Context_default ==
  [is_prefill |-> FALSE, cu_seqlens_q |-> <<>>, cu_seqlens_k |-> <<>>,
   max_seqlen_q |-> 0, max_seqlen_k |-> 0, slot_mapping |-> <<>>,
   context_lens |-> <<>>, block_tables |-> <<>>]

\* Arguments of set_context: a prefill step of two prompts, a decode step
\* of two sequences, and a prefill step over a cached prefix.
PrefillArgs ==
  [is_prefill |-> TRUE, cu_seqlens_q |-> <<"cu_q">>, cu_seqlens_k |-> <<"cu_k">>,
   max_seqlen_q |-> 3, max_seqlen_k |-> 3, slot_mapping |-> <<"slots_p">>,
   context_lens |-> <<>>, block_tables |-> <<>>]

DecodeArgs ==
  [is_prefill |-> FALSE, cu_seqlens_q |-> <<>>, cu_seqlens_k |-> <<>>,
   max_seqlen_q |-> 0, max_seqlen_k |-> 0, slot_mapping |-> <<"slots_d">>,
   context_lens |-> <<"lens">>, block_tables |-> << <<"bt0", "bt1">> >>]

CachedPrefillArgs ==
  [is_prefill |-> TRUE, cu_seqlens_q |-> <<"cu_q">>, cu_seqlens_k |-> <<"cu_kc">>,
   max_seqlen_q |-> 1, max_seqlen_k |-> 3, slot_mapping |-> <<"slots_c">>,
   context_lens |-> <<>>, block_tables |-> << <<"bt0">> >>]

Snapshots == {PrefillArgs, DecodeArgs, CachedPrefillArgs}

Context_clone_drops_tables(ctx) == [ctx EXCEPT !.block_tables = <<>>]

\* derive(Clone) of Context: every field is cloned, in declaration order.
Context_clone(ctx) ==
  [is_prefill   |-> ctx.is_prefill,
   cu_seqlens_q |-> ctx.cu_seqlens_q,
   cu_seqlens_k |-> ctx.cu_seqlens_k,
   max_seqlen_q |-> ctx.max_seqlen_q,
   max_seqlen_k |-> ctx.max_seqlen_k,
   slot_mapping |-> ctx.slot_mapping,
   context_lens |-> ctx.context_lens,
   block_tables |-> ctx.block_tables]

\* get_context, lines 110-113: the match on the slot.
get_match(slot) ==
  IF slot = <<>> THEN Context_default ELSE Context_clone(slot[1])

\* The Context that set_context builds from its arguments (lines 147-156).
Context_literal(args) ==
  [is_prefill   |-> args.is_prefill,
   cu_seqlens_q |-> args.cu_seqlens_q,
   cu_seqlens_k |-> args.cu_seqlens_k,
   max_seqlen_q |-> args.max_seqlen_q,
   max_seqlen_k |-> args.max_seqlen_k,
   slot_mapping |-> args.slot_mapping,
   context_lens |-> args.context_lens,
   block_tables |-> args.block_tables]

store_merging(slot, ctx) ==
  IF slot = <<>> THEN <<ctx>>
  ELSE << [f \in ContextFields |->
             IF f \in OptionalFields /\ ctx[f] = <<>> THEN slot[1][f] ELSE ctx[f]] >>

store_keeps_first(slot, ctx) == IF slot = <<>> THEN <<ctx>> ELSE slot

\* *context = Some(ctx), line 147: the slot's old content is dropped.
store(slot, ctx) == <<ctx>>

\* A Context is several words of memory: it is copied and overwritten in
\* two parts, the fields up to max_seqlen_q and the fields after it.
FirstPart == {"is_prefill", "cu_seqlens_q", "cu_seqlens_k", "max_seqlen_q"}

Splice(first, second) ==
  [f \in ContextFields |-> IF f \in FirstPart THEN first[f] ELSE second[f]]

mutex_unguarded(m) == TRUE

\* Mutex::lock returns when no thread holds the mutex.  No thread panics
\* while holding it, so it is never poisoned and unwrap() succeeds.
mutex_free(m) == m = <<>>

guard_leaked(m) == m

\* The MutexGuard is dropped at the end of the function: the mutex is free.
guard_drop(m) == <<>>

\* args and local are <<>> while the thread has none.
IdleCall == [pc |-> "idle", args |-> <<>>, local |-> <<>>, ret |-> <<>>]

\* The most get_context calls counted between two set_context calls.
MaxGets == 2

\* The convert_dtype calls a run records.
MaxConverts == 3

\* The Config values a run builds.
MaxConfigs == 2

ContextInit ==
  /\ CONTEXT = <<>>
  /\ mutex = <<>>
  /\ call = [t \in Threads |-> IdleCall]
  /\ hist = [written |-> <<>>, prev |-> <<>>, gets |-> 0, fresh |-> {},
             seen |-> [t \in Threads |-> <<>>]]

(***************************************************************************)
(* loader.rs: name resolution.  A str is the sequence of its characters.   *)
(***************************************************************************)
layer0_q_proj_weight ==
  <<"l", "a", "y", "e", "r", "0", ".", "q", "_", "p", "r", "o", "j", ".",
    "w", "e", "i", "g", "h", "t">>

layer0_k_proj_weight ==
  <<"l", "a", "y", "e", "r", "0", ".", "k", "_", "p", "r", "o", "j", ".",
    "w", "e", "i", "g", "h", "t">>

layer0_o_proj_weight ==
  <<"l", "a", "y", "e", "r", "0", ".", "o", "_", "p", "r", "o", "j", ".",
    "w", "e", "i", "g", "h", "t">>

layer0_up_proj_weight ==
  <<"l", "a", "y", "e", "r", "0", ".", "u", "p", "_", "p", "r", "o", "j",
    ".", "w", "e", "i", "g", "h", "t">>

q_proj_q_proj ==
  <<"q", "_", "p", "r", "o", "j", ".", "q", "_", "p", "r", "o", "j">>

layer0_qkv_proj_weight ==
  <<"l", "a", "y", "e", "r", "0", ".", "q", "k", "v", "_", "p", "r", "o",
    "j", ".", "w", "e", "i", "g", "h", "t">>

q_proj ==
  <<"q", "_", "p", "r", "o", "j">>

k_proj ==
  <<"k", "_", "p", "r", "o", "j">>

qkv_proj ==
  <<"q", "k", "v", "_", "p", "r", "o", "j">>

gate_proj ==
  <<"g", "a", "t", "e", "_", "p", "r", "o", "j">>

up_proj ==
  <<"u", "p", "_", "p", "r", "o", "j">>

gate_up_proj ==
  <<"g", "a", "t", "e", "_", "u", "p", "_", "p", "r", "o", "j">>

proj ==
  <<"p", "r", "o", "j">>

linear ==
  <<"l", "i", "n", "e", "a", "r">>

\* The tensor names of the serialized files.
TensorNames ==
  {layer0_q_proj_weight, layer0_k_proj_weight, layer0_o_proj_weight,
   layer0_up_proj_weight, q_proj_q_proj}

\* PackedModulesMapping values: pattern -> (replacement, shard_id).
QkMapping ==
  (q_proj :> [replacement |-> qkv_proj, shard_id |-> 0]) @@
  (k_proj :> [replacement |-> qkv_proj, shard_id |-> 1])

GateUpMapping ==
  (gate_proj :> [replacement |-> gate_up_proj, shard_id |-> 0]) @@
  (up_proj :> [replacement |-> gate_up_proj, shard_id |-> 1])

\* A mapping with a pattern that is a substring of another pattern.
NestedMapping ==
  (q_proj :> [replacement |-> qkv_proj, shard_id |-> 0]) @@
  (proj :> [replacement |-> linear, shard_id |-> 1])

\* What get_packed_modules_mapping returns for the models loaded.
PackedOptions == {<<>>, <<QkMapping>>, <<GateUpMapping>>, <<NestedMapping>>}

\* The orders in which a HashMap with these keys may be iterated.
Orders(mapping) ==
  {o \in [1 .. Cardinality(DOMAIN mapping) -> DOMAIN mapping] :
     \A i, j \in DOMAIN o : i # j => o[i] # o[j]}

\* str::contains.
Contains(s, pattern) ==
  \E i \in 0 .. Len(s) - Len(pattern) :
    SubSeq(s, i + 1, i + Len(pattern)) = pattern

RECURSIVE ReplaceFrom(_, _, _)
\* str::replace for a non-empty pattern: the matches are found from left
\* to right and do not overlap.
ReplaceFrom(s, from, to) ==
  IF Len(s) < Len(from) THEN s
  ELSE IF SubSeq(s, 1, Len(from)) = from
       THEN to \o ReplaceFrom(SubSeq(s, Len(from) + 1, Len(s)), from, to)
       ELSE <<s[1]>> \o ReplaceFrom(Tail(s), from, to)

RECURSIVE Interleave(_, _)
\* str::replace for the empty pattern, which matches before every
\* character and at the end.
Interleave(s, to) ==
  IF s = <<>> THEN to ELSE to \o <<s[1]>> \o Interleave(Tail(s), to)

RECURSIVE Replace_first_only(_, _, _)
Replace_first_only(s, from, to) ==
  IF Len(s) < Len(from) THEN s
  ELSE IF SubSeq(s, 1, Len(from)) = from
       THEN to \o SubSeq(s, Len(from) + 1, Len(s))
       ELSE <<s[1]>> \o Replace_first_only(Tail(s), from, to)

\* str::replace, line 148.
Replace(s, from, to) ==
  IF from = <<>> THEN Interleave(s, to) ELSE ReplaceFrom(s, from, to)

RECURSIVE find_from(_, _, _, _)
\* The loop of find_packed_mapping from position i of the iteration.
find_from(tensor_name, mapping, order, i) ==
  IF i > Len(order) THEN <<>>
  ELSE IF Contains(tensor_name, order[i])
       THEN << [param_name |-> Replace(tensor_name, order[i],
                                       mapping[order[i]].replacement),
                shard_id   |-> mapping[order[i]].shard_id] >>
       ELSE find_from(tensor_name, mapping, order, i + 1)

RECURSIVE find_position_from(_, _, _, _)
find_position_from(tensor_name, mapping, order, i) ==
  IF i > Len(order) THEN <<>>
  ELSE IF Contains(tensor_name, order[i])
       THEN << [param_name |-> Replace(tensor_name, order[i],
                                       mapping[order[i]].replacement),
                shard_id   |-> i - 1] >>
       ELSE find_position_from(tensor_name, mapping, order, i + 1)

find_packed_mapping_position(tensor_name, mapping, order) ==
  find_position_from(tensor_name, mapping, order, 1)

\* find_packed_mapping; order is the order in which the HashMap yields its
\* entries, which the language leaves unspecified.
find_packed_mapping(tensor_name, mapping, order) ==
  find_from(tensor_name, mapping, order, 1)

resolve_unmatched_shard_zero(tensor_name, packed_modules_mapping, order) ==
  IF packed_modules_mapping # <<>>
  THEN LET found == find_packed_mapping(tensor_name,
                                        packed_modules_mapping[1], order)
       IN  IF found # <<>>
           THEN [param_name |-> found[1].param_name,
                 shard_id   |-> <<found[1].shard_id>>]
           ELSE [param_name |-> tensor_name, shard_id |-> <<0>>]
  ELSE [param_name |-> tensor_name, shard_id |-> <<>>]

\* process_tensor, lines 181-189: (param_name, shard_id).
resolve(tensor_name, packed_modules_mapping, order) ==
  IF packed_modules_mapping # <<>>
  THEN LET found == find_packed_mapping(tensor_name,
                                        packed_modules_mapping[1], order)
       IN  IF found # <<>>
           THEN [param_name |-> found[1].param_name,
                 shard_id   |-> <<found[1].shard_id>>]
           ELSE [param_name |-> tensor_name, shard_id |-> <<>>]
  ELSE [param_name |-> tensor_name, shard_id |-> <<>>]

(***************************************************************************)
(* loader.rs: load_model.  A Result is a record: ok tells Ok from Err,     *)
(* value holds the Ok value and error the Err value, each as an Option.    *)
(***************************************************************************)
Ok(v) == [ok |-> TRUE, value |-> <<v>>, error |-> <<>>]

Err(e) == [ok |-> FALSE, value |-> <<>>, error |-> <<e>>]

\* An error as anyhow reports it: what failed, and the tensor name or the
\* path that its message or its context carries, if any.
Error(kind, tensor, path) == [kind |-> kind, tensor |-> tensor, path |-> path]

\* safetensors::tensor::Dtype.
Dtypes ==
  {"BOOL", "U8", "I8", "F8_E5M2", "F8_E4M3", "I16", "U16", "F16", "BF16",
   "I32", "U32", "F32", "F64", "I64", "U64"}

\* candle_core::DType.
DTypes == {"U8", "U32", "I64", "BF16", "F16", "F32", "F64"}

convert_dtype_keeps_i32(dtype, tensor_name) ==
  IF dtype \in {"F32", "F16", "BF16", "I64", "I32"} THEN Ok(dtype)
  ELSE IF dtype \in {"U8", "I8", "BOOL"} THEN Ok("U8")
  ELSE Err(Error("unsupported dtype", <<tensor_name>>, <<>>))

convert_dtype_accepts_f64(dtype, tensor_name) ==
  IF dtype \in {"F32", "F16", "BF16", "I64", "F64"} THEN Ok(dtype)
  ELSE IF dtype = "I32" THEN Ok("U32")
  ELSE IF dtype \in {"U8", "I8", "BOOL"} THEN Ok("U8")
  ELSE Err(Error("unsupported dtype", <<tensor_name>>, <<>>))

\* convert_dtype, lines 90-102.
convert_dtype(dtype, tensor_name) ==
  CASE dtype = "F32"  -> Ok("F32")
    [] dtype = "F16"  -> Ok("F16")
    [] dtype = "BF16" -> Ok("BF16")
    [] dtype = "I64"  -> Ok("I64")
    [] dtype = "I32"  -> Ok("U32")
    [] dtype = "U8"   -> Ok("U8")
    [] dtype = "I8"   -> Ok("U8")
    [] dtype = "BOOL" -> Ok("U8")
    [] OTHER          -> Err(Error("unsupported dtype", <<tensor_name>>, <<>>))

\* create_tensor, lines 120-130: the tensor made of a view of the file, or
\* the error of convert_dtype.  The file was validated when it was
\* deserialized, so its buffer has the length its shape and dtype require.
create_tensor(view, tensor_name) ==
  LET dtype == convert_dtype(view.dtype, tensor_name)
  IN  IF dtype.ok
      THEN Ok([dtype |-> dtype.value[1], data |-> view.data])
      ELSE dtype

\* The files of the directories: the tensor views of a serialized-tensor
\* file, by name; a file that cannot be read; a file that is not a
\* serialized-tensor container.
AttnFile ==
  [path |-> "attn.safetensors", kind |-> "tensors",
   views |-> (layer0_q_proj_weight :> [dtype |-> "F32", data |-> "wq"]) @@
             (layer0_k_proj_weight :> [dtype |-> "F16", data |-> "wk"]) @@
             (layer0_o_proj_weight :> [dtype |-> "BOOL", data |-> "wo"])]

MlpFile ==
  [path |-> "mlp.safetensors", kind |-> "tensors",
   views |-> (layer0_up_proj_weight :> [dtype |-> "I32", data |-> "wu"]) @@
             (layer0_o_proj_weight :> [dtype |-> "BF16", data |-> "wo2"])]

DoubleFile ==
  [path |-> "double.safetensors", kind |-> "tensors",
   views |-> (layer0_q_proj_weight :> [dtype |-> "F32", data |-> "wq"]) @@
             (layer0_up_proj_weight :> [dtype |-> "F64", data |-> "wd"])]

LockedFile == [path |-> "locked.safetensors", kind |-> "unreadable", views |-> <<>>]

TornFile == [path |-> "torn.safetensors", kind |-> "malformed", views |-> <<>>]

\* The directories given to load_model: whether the path exists and can be
\* listed, and its *.safetensors files in the order of their names.
Directories ==
  { [path |-> "absent",  kind |-> "missing",    files |-> <<>>],
    [path |-> "sealed",  kind |-> "unreadable", files |-> <<>>],
    [path |-> "weights", kind |-> "listed",     files |-> <<AttnFile, MlpFile>>],
    [path |-> "f64",     kind |-> "listed",     files |-> <<DoubleFile, MlpFile>>],
    [path |-> "locked",  kind |-> "listed",     files |-> <<AttnFile, LockedFile, MlpFile>>],
    [path |-> "torn",    kind |-> "listed",     files |-> <<TornFile, MlpFile>>] }

\* The models given to load_model: the mapping they declare, the parameters
\* load_weight finds, and the parameters for which load_weight fails.
Models ==
  { [packed |-> <<QkMapping>>,
     params |-> {layer0_qkv_proj_weight, layer0_up_proj_weight},
     failing |-> {}],
    [packed |-> <<>>,
     params |-> {layer0_q_proj_weight, layer0_k_proj_weight,
                 layer0_o_proj_weight, layer0_up_proj_weight},
     failing |-> {}],
    [packed |-> <<GateUpMapping>>,
     params |-> {layer0_q_proj_weight, layer0_k_proj_weight},
     failing |-> {layer0_o_proj_weight}] }

glob_first_match(dir) ==
  IF dir.kind = "missing" THEN <<>>
  ELSE IF dir.kind = "unreadable"
       THEN <<Err(Error("glob", <<>>, <<dir.path>>))>>
       ELSE [i \in 1 .. Min(1, Len(dir.files)) |-> Ok(dir.files[i])]

\* What the iterator of glob yields for <dir>/*.safetensors (lines 244-248):
\* nothing when the path is not there, one error when the directory cannot
\* be listed, else the files that match.
glob(dir) ==
  IF dir.kind = "missing" THEN <<>>
  ELSE IF dir.kind = "unreadable"
       THEN <<Err(Error("glob", <<>>, <<dir.path>>))>>
       ELSE [i \in 1 .. Len(dir.files) |-> Ok(dir.files[i])]

\* fs::read with its context (lines 249-250), then SafeTensors::deserialize
\* (line 253), whose error is passed on as it is.
open_file(file) ==
  IF file.kind = "unreadable" THEN Err(Error("read", <<>>, <<file.path>>))
  ELSE IF file.kind = "malformed" THEN Err(Error("deserialize", <<>>, <<>>))
  ELSE Ok(file.views)

load_weight_rejects_unknown(model, name, weight, shard_id) ==
  IF name \in model.params THEN Ok(TRUE)
  ELSE Err(Error("load_weight", <<name>>, <<>>))

\* load_weight of the model: Ok(true) when the parameter is found,
\* Ok(false) when it is not, Err when the model fails to take the weight.
load_weight(model, name, weight, shard_id) ==
  IF name \in model.failing THEN Err(Error("load_weight", <<name>>, <<>>))
  ELSE Ok(name \in model.params)

LoaderInit == loader = [built |-> FALSE, packed |-> <<>>, seen |-> {}]

\* No load_model call is running.
IdleLoad ==
  [pc |-> "idle", model |-> <<>>, dir |-> <<>>, packed |-> <<>>,
   entries |-> <<>>, file |-> <<>>, views |-> <<>>, todo |-> {},
   calls |-> <<>>, warnings |-> <<>>, result |-> <<>>]

(***************************************************************************)
(* Initial state: the static's initializer, no Sequence, no call running.  *)
(***************************************************************************)
IdleThread ==
  [pc |-> "idle", token_ids |-> <<>>, params |-> SamplingParams_default,
   seq_id |-> 0]

AllocInit == alloc = [served |-> {}, pending |-> {}]

Init ==
  /\ SEQ_COUNTER = 0
  /\ seqs = <<>>
  /\ thr = [t \in Threads |-> IdleThread]
  /\ meta = <<>>
  /\ issued = <<>>
  /\ AllocInit
  /\ ContextInit
  /\ LoaderInit
  /\ load = IdleLoad
  /\ converted = {}
  /\ configs = <<>>
  /\ batch = [t \in Threads |-> "start"]

\* Creations whose assertion failed so far (a panicked thread is gone).
Failures == Cardinality({t \in Threads : thr[t].pc = "panicked"})

\* Calls of Sequence::new that hold an id and have not returned yet.
InFlight == Cardinality({t \in Threads : thr[t].pc \in {"next_seq_id", "construct"}})

RECURSIVE SumAppended(_)
SumAppended(m) ==
  IF m = <<>> THEN 0 ELSE Len(m[1].appended) + SumAppended(Tail(m))

\* append_token calls made so far on the values alive.
Appends == SumAppended(meta)

(***************************************************************************)
(* Sequence::new, line 179: thread t calls it; the assertion panics on an  *)
(* empty prompt before anything else is evaluated.                         *)
(***************************************************************************)
NewCall(t, token_ids, params) ==
  /\ thr[t].pc = "idle"
  /\ Len(seqs) + InFlight < MaxSeqs
  /\ thr' = [thr EXCEPT ![t] =
               IF new_assert(token_ids)
               THEN [pc |-> "next_seq_id", token_ids |-> token_ids,
                     params |-> params, seq_id |-> 0]
               ELSE [IdleThread EXCEPT !.pc = "panicked"]]
  /\ UNCHANGED <<SEQ_COUNTER, seqs, meta, issued>>

\* Sequence::new, line 184: seq_id: next_seq_id(), one atomic step.
NextSeqId(t) ==
  /\ thr[t].pc = "next_seq_id"
  /\ thr' = [thr EXCEPT ![t].pc = "construct", ![t].seq_id = SEQ_COUNTER]
  /\ SEQ_COUNTER' = fetch_add(SEQ_COUNTER, 1)
  /\ issued' = Append(issued, [id |-> SEQ_COUNTER, failures |-> Failures])
  /\ UNCHANGED <<seqs, meta>>

\* Sequence::new, lines 185-196: the rest of the struct literal; the value
\* is returned to the caller.  token_ids.last().unwrap() panics on an empty
\* vector.
NewReturn(t) ==
  /\ thr[t].pc = "construct"
  /\ IF Len(thr[t].token_ids) = 0
     THEN /\ thr' = [thr EXCEPT ![t] = [IdleThread EXCEPT !.pc = "panicked"]]
          /\ UNCHANGED <<seqs, meta>>
     ELSE /\ seqs' = Append(seqs,
                 Sequence_new(thr[t].token_ids, thr[t].params, thr[t].seq_id))
          /\ meta' = Append(meta,
                 [origin |-> "new", req |-> Len(seqs) + 1,
                  prompt |-> thr[t].token_ids, appended |-> <<>>])
          /\ thr' = [thr EXCEPT ![t] = IdleThread]
  /\ UNCHANGED <<SEQ_COUNTER, issued>>

\* Sequence::append_token on the value seqs[i], by its owner.
AppendToken(i, token_id) ==
  /\ i \in 1 .. Len(seqs)
  /\ Appends < MaxAppends
  /\ seqs' = [seqs EXCEPT ![i] = append_token(@, token_id)]
  /\ meta' = [meta EXCEPT ![i].appended = Append(@, token_id)]
  /\ UNCHANGED <<SEQ_COUNTER, thr, issued>>

\* derive(Clone): a field-for-field copy, of the same request.
Clone(i) ==
  /\ i \in 1 .. Len(seqs)
  /\ Len(seqs) + InFlight < MaxSeqs
  /\ seqs' = Append(seqs, seqs[i])
  /\ meta' = Append(meta, meta[i])
  /\ UNCHANGED <<SEQ_COUNTER, thr, issued>>

\* derive(Deserialize) on a saved state that an earlier process wrote: the
\* request it was saved for, which is none of those created here.
\* next_seq_id runs only when the document has no seq_id.
Deserialize(doc) ==
  /\ Len(seqs) + InFlight < MaxSeqs
  /\ seqs' = Append(seqs, Sequence_deserialize(doc, SEQ_COUNTER))
  /\ meta' = Append(meta,
        [origin |-> "deserialize", req |-> DocRequest(doc),
         prompt |-> SubSeq(doc.token_ids, 1, doc.num_prompt_tokens),
         appended |-> <<>>])
  /\ IF doc.seq_id = <<>>
     THEN /\ SEQ_COUNTER' = fetch_add(SEQ_COUNTER, 1)
          /\ issued' = Append(issued, [id |-> SEQ_COUNTER, failures |-> Failures])
     ELSE UNCHANGED <<SEQ_COUNTER, issued>>
  /\ UNCHANGED thr

\* The ledger's operations touch nothing outside the ledger.
OutsideLedger == UNCHANGED <<alloc, context, loader, extras>>

Next ==
  \/ \E t \in Threads, r \in Requests :
        NewCall(t, r.token_ids, r.params) /\ OutsideLedger
  \/ \E t \in Threads : NextSeqId(t) /\ OutsideLedger
  \/ \E t \in Threads : NewReturn(t) /\ OutsideLedger
  \/ \E i \in 1 .. MaxSeqs, tok \in TokenValues :
        AppendToken(i, tok) /\ OutsideLedger
  \/ \E i \in 1 .. MaxSeqs : Clone(i) /\ OutsideLedger
  \/ \E doc \in Docs : Deserialize(doc) /\ OutsideLedger

Spec == Init /\ [][Next]_vars

\* The ledger as one thread fills it: values are created and appended to.
\* The accessors read one value; what other threads, clones and saved
\* states add is other values.
AccessNext ==
  \/ \E r \in Requests : NewCall("t1", r.token_ids, r.params) /\ OutsideLedger
  \/ NextSeqId("t1") /\ OutsideLedger
  \/ NewReturn("t1") /\ OutsideLedger
  \/ \E i \in 1 .. MaxSeqs, tok \in TokenValues :
        AppendToken(i, tok) /\ OutsideLedger

SpecAccess == Init /\ [][AccessNext]_vars

\* Prompts whose tokens differ from position to position, of lengths
\* around one and two blocks.
Ramp(n) == [i \in 1 .. n |-> 1000 + i]

BlockRequests ==
  { [token_ids |-> Ramp(1),              params |-> SamplingParams_default],
    [token_ids |-> Ramp(BLOCK_SIZE - 1), params |-> SamplingParams_default],
    [token_ids |-> Ramp(BLOCK_SIZE),     params |-> GreedyOneToken],
    [token_ids |-> Ramp(BLOCK_SIZE + 1), params |-> SamplingParams_default],
    [token_ids |-> Ramp(2 * BLOCK_SIZE), params |-> SamplingParams_default] }

\* The ledger as one thread fills it with those prompts and appends to them.
BlocksNext ==
  \/ \E r \in BlockRequests : NewCall("t1", r.token_ids, r.params) /\ OutsideLedger
  \/ NextSeqId("t1") /\ OutsideLedger
  \/ NewReturn("t1") /\ OutsideLedger
  \/ \E i \in 1 .. MaxSeqs, tok \in TokenValues :
        AppendToken(i, tok) /\ OutsideLedger

SpecBlocks == Init /\ [][BlocksNext]_vars

(***************************************************************************)
(* The ledger driven by the scheduler and the block allocator, which are   *)
(* outside the repository.  They are taken as the design describes them:   *)
(* the allocator, when called for a value, appends physical block ids to   *)
(* block_table until it has num_blocks() entries, and advances             *)
(* num_cached_tokens as cache commits complete, never past the tokens      *)
(* there are; the scheduler appends at most one token between two calls    *)
(* of the allocator for the same value.                                    *)
(***************************************************************************)
\* The prompts of this regime: around one block, and of two blocks.
AllocRequests ==
  { [token_ids |-> Fill(BLOCK_SIZE - 1, 7),     params |-> SamplingParams_default],
    [token_ids |-> Fill(BLOCK_SIZE, 7),         params |-> GreedyOneToken],
    [token_ids |-> Fill(2 * BLOCK_SIZE, 7),     params |-> SamplingParams_default] }

\* The physical block the allocator gives to logical block k (from 0) of
\* seqs[i]: no two logical blocks share one.
PhysicalBlock(i, k) == MaxSeqs * k + (i - 1)

\* The blocks for the logical blocks have .. have + n - 1 of seqs[i].
FreshBlocks(i, have, n) == [k \in 1 .. n |-> PhysicalBlock(i, have + k - 1)]

\* The allocator is called for seqs[i].
Allocate(i) ==
  /\ i \in 1 .. Len(seqs)
  /\ i \notin alloc.served \/ i \in alloc.pending
  /\ LET missing == num_blocks(seqs[i]) - Len(seqs[i].block_table)
     IN  /\ seqs' = [seqs EXCEPT ![i].block_table =
                        @ \o FreshBlocks(i, Len(@), missing)]
         /\ alloc' = [served  |-> alloc.served \cup {i},
                      pending |-> alloc.pending \ {i}]
  /\ UNCHANGED <<SEQ_COUNTER, thr, meta, issued>>

\* A cache commit completes for seqs[i]: n leading tokens are cached.
AdvanceCached(i, n) ==
  /\ i \in 1 .. Len(seqs)
  /\ seqs[i].num_cached_tokens < n
  /\ n <= seqs[i].num_tokens
  /\ seqs' = [seqs EXCEPT ![i].num_cached_tokens = n]
  /\ UNCHANGED <<SEQ_COUNTER, thr, meta, issued, alloc>>

\* The commits that complete: of the first block, and of all tokens.
CommitPoints(i) ==
  IF i \in 1 .. Len(seqs) THEN {BLOCK_SIZE, seqs[i].num_tokens} ELSE {}

\* The scheduler appends the token of a decode step to seqs[i], which the
\* allocator has served since the previous append.
ScheduledAppend(i, token_id) ==
  /\ i \in alloc.served
  /\ i \notin alloc.pending
  /\ AppendToken(i, token_id)
  /\ alloc' = [alloc EXCEPT !.pending = @ \cup {i}]

\* The allocator and the scheduler touch nothing but the ledger.
OutsideAlloc == UNCHANGED <<context, loader, extras>>

\* Requests are ingested by one thread.
AllocNext ==
  \/ \E r \in AllocRequests : NewCall("t1", r.token_ids, r.params) /\ OutsideLedger
  \/ NextSeqId("t1") /\ OutsideLedger
  \/ NewReturn("t1") /\ OutsideLedger
  \/ \E i \in 1 .. MaxSeqs : ScheduledAppend(i, OrdinaryToken) /\ OutsideAlloc
  \/ \E i \in 1 .. MaxSeqs : Allocate(i) /\ OutsideAlloc
  \/ \E i \in 1 .. MaxSeqs : \E n \in CommitPoints(i) :
        AdvanceCached(i, n) /\ OutsideAlloc

SpecAlloc == Init /\ [][AllocNext]_vars

(***************************************************************************)
(* get_context and set_context (context.rs).  A call is split at the       *)
(* acquisition of the mutex and, inside the critical section, at the       *)
(* middle of the copy or of the overwrite, so that what the mutex excludes *)
(* is an interleaving the model would otherwise have.                      *)
(***************************************************************************)
\* Thread t calls get_context().
GetCall(t) ==
  /\ call[t].pc = "idle"
  /\ call' = [call EXCEPT ![t].pc = "get_lock"]
  /\ UNCHANGED <<CONTEXT, mutex, hist>>

\* Line 109: CONTEXT.lock().unwrap().
GetLock(t) ==
  /\ call[t].pc = "get_lock"
  /\ mutex_free(mutex)
  /\ mutex' = <<t>>
  /\ call' = [call EXCEPT ![t].pc = "get_copy"]
  /\ hist' = [hist EXCEPT !.seen[t] = hist.written]
  /\ UNCHANGED CONTEXT

\* Lines 110-113, first part of the copy.
GetCopy(t) ==
  /\ call[t].pc = "get_copy"
  /\ call' = [call EXCEPT ![t].pc = "get_return", ![t].local = <<get_match(CONTEXT)>>]
  /\ UNCHANGED <<CONTEXT, mutex, hist>>

\* Lines 110-114: the rest of the copy; the guard is dropped and the copy
\* is returned.
GetReturn(t) ==
  /\ call[t].pc = "get_return"
  /\ call' = [call EXCEPT ![t].pc = "idle",
                          ![t].local = <<>>,
                          ![t].ret = <<Splice(call[t].local[1],
                                              get_match(CONTEXT))>>]
  /\ mutex' = guard_drop(mutex)
  /\ hist' = [hist EXCEPT !.gets = Min(@ + 1, MaxGets),
                          !.fresh = @ \cup {t}]
  /\ UNCHANGED CONTEXT

\* Thread t calls set_context with the arguments args.
SetCall(t, args) ==
  /\ call[t].pc = "idle"
  /\ call' = [call EXCEPT ![t].pc = "set_lock", ![t].args = <<args>>]
  /\ UNCHANGED <<CONTEXT, mutex, hist>>

\* Line 146: CONTEXT.lock().unwrap().
SetLock(t) ==
  /\ call[t].pc = "set_lock"
  /\ mutex_free(mutex)
  /\ mutex' = <<t>>
  /\ call' = [call EXCEPT ![t].pc = "set_write"]
  /\ hist' = [hist EXCEPT !.prev = hist.written,
                          !.written = call[t].args,
                          !.gets = 0,
                          !.fresh = {}]
  /\ UNCHANGED CONTEXT

\* Lines 147-156, first part of the overwrite.
SetWrite(t) ==
  /\ call[t].pc = "set_write"
  /\ CONTEXT' = <<Splice(store(CONTEXT, Context_literal(call[t].args[1]))[1],
                         IF CONTEXT = <<>> THEN Context_default ELSE CONTEXT[1])>>
  /\ call' = [call EXCEPT ![t].pc = "set_return"]
  /\ UNCHANGED <<mutex, hist>>

\* Lines 147-157: the rest of the overwrite; the guard is dropped.
SetReturn(t) ==
  /\ call[t].pc = "set_return"
  /\ CONTEXT' = <<Splice(CONTEXT[1],
                         store(CONTEXT, Context_literal(call[t].args[1]))[1])>>
  /\ call' = [call EXCEPT ![t].pc = "idle", ![t].args = <<>>]
  /\ mutex' = guard_drop(mutex)
  /\ UNCHANGED hist

\* The two functions touch nothing but the slot and its mutex.
OutsideContext == UNCHANGED <<ledger, alloc, loader, extras>>

ContextNext ==
  \/ \E t \in Threads : GetCall(t) /\ OutsideContext
  \/ \E t \in Threads : GetLock(t) /\ OutsideContext
  \/ \E t \in Threads : GetCopy(t) /\ OutsideContext
  \/ \E t \in Threads : GetReturn(t) /\ OutsideContext
  \/ \E t \in Threads, args \in Snapshots : SetCall(t, args) /\ OutsideContext
  \/ \E t \in Threads : SetLock(t) /\ OutsideContext
  \/ \E t \in Threads : SetWrite(t) /\ OutsideContext
  \/ \E t \in Threads : SetReturn(t) /\ OutsideContext

SpecContext == Init /\ [][ContextNext]_vars

\* A call that has started keeps running, and a thread that waits for the
\* mutex gets it if the mutex is free again and again.
ContextFairness ==
  \A t \in Threads :
    /\ WF_vars((GetCopy(t) \/ GetReturn(t) \/ SetWrite(t) \/ SetReturn(t))
                 /\ OutsideContext)
    /\ SF_vars((GetLock(t) \/ SetLock(t)) /\ OutsideContext)

SpecContextFair == Init /\ [][ContextNext]_vars /\ ContextFairness

\* ---------------------------------------------------------------------
\* The batch step of two threads over the slot: each thread sets the
\* snapshot of its own batch, runs its kernels, and reads the slot back
\* with get_context, again and again.  batch[t] is where thread t is in
\* its step.
\* ---------------------------------------------------------------------
OwnSnapshot(t) == IF t = "t1" THEN PrefillArgs ELSE DecodeArgs

OutsideBatch == UNCHANGED <<ledger, alloc, loader, load, converted, configs>>

\* set_context(own snapshot) is called.
BatchSet(t) ==
  /\ batch[t] \in {"start", "done"}
  /\ SetCall(t, OwnSnapshot(t))
  /\ batch' = [batch EXCEPT ![t] = "set"]

\* set_context has returned: the thread's kernels run.
BatchSetReturn(t) ==
  /\ batch[t] = "set"
  /\ SetReturn(t)
  /\ batch' = [batch EXCEPT ![t] = "kernel"]

\* get_context is called.
BatchGet(t) ==
  /\ batch[t] = "kernel"
  /\ GetCall(t)
  /\ batch' = [batch EXCEPT ![t] = "get"]

\* get_context has returned.
BatchGetReturn(t) ==
  /\ batch[t] = "get"
  /\ GetReturn(t)
  /\ batch' = [batch EXCEPT ![t] = "done"]

BatchNext ==
  \/ \E t \in Threads : BatchSet(t) /\ OutsideBatch
  \/ \E t \in Threads : SetLock(t) /\ UNCHANGED batch /\ OutsideBatch
  \/ \E t \in Threads : SetWrite(t) /\ UNCHANGED batch /\ OutsideBatch
  \/ \E t \in Threads : BatchSetReturn(t) /\ OutsideBatch
  \/ \E t \in Threads : BatchGet(t) /\ OutsideBatch
  \/ \E t \in Threads : GetLock(t) /\ UNCHANGED batch /\ OutsideBatch
  \/ \E t \in Threads : GetCopy(t) /\ UNCHANGED batch /\ OutsideBatch
  \/ \E t \in Threads : BatchGetReturn(t) /\ OutsideBatch

SpecBatch == Init /\ [][BatchNext]_vars

(***************************************************************************)
(* Name resolution in the loader (loader.rs).  A model is built with its   *)
(* packed-modules mapping; process_tensor then resolves the tensor names   *)
(* of the files, in any number and order.                                  *)
(***************************************************************************)
\* The model to load is constructed; packed is what its
\* get_packed_modules_mapping returns.
BuildModel(packed) ==
  /\ ~loader.built
  /\ loader' = [loader EXCEPT !.built = TRUE, !.packed = packed]

\* The orders the mapping of the model may be iterated in (one empty
\* iteration when there is no mapping).
OrdersOf(packed) == IF packed = <<>> THEN {<<>>} ELSE Orders(packed[1])

\* process_tensor resolves tensor_name (lines 181-189) while the mapping
\* iterates in this order.
ProcessTensor(tensor_name, order) ==
  /\ loader.built
  /\ order \in OrdersOf(loader.packed)
  /\ loader' = [loader EXCEPT !.seen =
                  @ \cup {[tensor_name |-> tensor_name,
                           order       |-> order,
                           out         |-> resolve(tensor_name, loader.packed,
                                                   order)]}]

OutsideLoader == UNCHANGED <<ledger, alloc, context, extras>>

LoaderNext ==
  \/ \E packed \in PackedOptions : BuildModel(packed) /\ OutsideLoader
  \/ \E n \in TensorNames : \E order \in OrdersOf(loader.packed) :
        ProcessTensor(n, order) /\ OutsideLoader

SpecLoader == Init /\ [][LoaderNext]_vars

(***************************************************************************)
(* load_model (loader.rs, lines 233-262), one call at a time.  The call is *)
(* split at the entries of its glob iterator and at the tensors of a file. *)
(***************************************************************************)
return_err_rolls_back(l, result) ==
  [l EXCEPT !.pc = "returned", !.result = <<result>>, !.calls = <<>>]

\* The `?` of lines 248, 250, 253 and 257 (and of 193 and 196 in
\* process_tensor) on an Err: the function returns the error at once.  What
\* the model was given stays as it is; the loader has no call that undoes
\* a load_weight.
return_err(l, result) == [l EXCEPT !.pc = "returned", !.result = <<result>>]

\* load_model(model, dir) is called: lines 237-241, and the glob of line
\* 244, whose pattern is well formed.
LoadCall(model, dir) ==
  /\ load.pc = "idle"
  /\ load' = [IdleLoad EXCEPT !.pc = "files",
                              !.model = <<model>>,
                              !.dir = <<dir>>,
                              !.packed = model.packed,
                              !.entries = glob(dir)]

\* Lines 244-254: the next entry of the iterator.  There is none: the load
\* returns Ok(()).  It is an error, or the file cannot be read or
\* deserialized: the load returns the error.  Else the file's tensors are
\* to be processed.
NextEntry ==
  /\ load.pc = "files"
  /\ IF load.entries = <<>>
     THEN load' = [load EXCEPT !.pc = "returned", !.result = <<Ok("unit")>>]
     ELSE LET entry == Head(load.entries)
          IN  IF ~entry.ok
              THEN load' = return_err(load, entry)
              ELSE LET tensors == open_file(entry.value[1])
                   IN  IF ~tensors.ok
                       THEN load' = return_err(load, tensors)
                       ELSE load' = [load EXCEPT
                                       !.pc = "tensors",
                                       !.entries = Tail(@),
                                       !.file = <<entry.value[1].path>>,
                                       !.views = tensors.value[1],
                                       !.todo = DOMAIN tensors.value[1]]

\* Lines 256-258 and process_tensor (174-202) for the next name that
\* tensors.names() gives; the names of a file come in no specified order,
\* and so do the entries of the mapping.
LoadTensor(tensor_name, order) ==
  /\ load.pc = "tensors"
  /\ tensor_name \in load.todo
  /\ order \in OrdersOf(load.packed)
  /\ LET to      == resolve(tensor_name, load.packed, order)
         tensor  == create_tensor(load.views[tensor_name], tensor_name)
         found   == load_weight(load.model[1], to.param_name, tensor.value,
                                to.shard_id)
         call_   == [file |-> load.file[1], tensor_name |-> tensor_name,
                     name |-> to.param_name, weight |-> tensor.value,
                     shard_id |-> to.shard_id]
     IN  IF ~tensor.ok
         THEN load' = return_err(load, tensor)
         ELSE IF ~found.ok
              THEN load' = return_err([load EXCEPT !.calls = Append(@, call_)],
                                      found)
              ELSE load' = [load EXCEPT
                              !.pc = IF load.todo = {tensor_name}
                                     THEN "files" ELSE "tensors",
                              !.todo = @ \ {tensor_name},
                              !.calls = Append(@, call_),
                              !.warnings = IF found.value[1] THEN @
                                           ELSE Append(@, to.param_name)]

OutsideLoad == UNCHANGED <<ledger, alloc, context, loader, converted, configs, batch>>

LoadNext ==
  \/ \E model \in Models, dir \in Directories : LoadCall(model, dir) /\ OutsideLoad
  \/ NextEntry /\ OutsideLoad
  \/ \E n \in TensorNames : \E order \in OrdersOf(load.packed) :
        LoadTensor(n, order) /\ OutsideLoad

SpecLoad == Init /\ [][LoadNext]_vars

\* ---------------------------------------------------------------------
\* convert_dtype on its own: each step applies it to one on-disk element
\* type and one tensor name and records the argument with the result.
\* ---------------------------------------------------------------------
ConvertDtype(dtype, tensor_name) ==
  /\ Cardinality(converted) < MaxConverts
  /\ converted' = converted \cup
       {[dtype |-> dtype, tensor_name |-> tensor_name,
         result |-> convert_dtype(dtype, tensor_name)]}
  /\ UNCHANGED <<ledger, alloc, context, loader, load, configs, batch>>

DtypeNext ==
  \E dtype \in Dtypes, tensor_name \in {layer0_q_proj_weight, layer0_up_proj_weight} :
    ConvertDtype(dtype, tensor_name)

SpecDtype == Init /\ [][DtypeNext]_vars

\* ---------------------------------------------------------------------
\* Config (crates/common/src/config.rs).  The f64 field is carried as its
\* decimal literal.
\* ---------------------------------------------------------------------
default_max_num_batched_tokens == 16384
default_max_num_seqs == 512
default_max_model_len == 4096
default_gpu_memory_utilization == "0.9"
default_tensor_parallel_size == 1
default_kvcache_block_size == 256

\* The fields a document can give (those not marked serde(skip)).
ConfigFields ==
  {"model_dir", "max_num_batched_tokens", "max_num_seqs", "max_model_len",
   "gpu_memory_utilization", "tensor_parallel_size", "enforce_eager",
   "kvcache_block_size"}

\* derive(Default) on Config, line 20: every field gets the Default of its
\* type: the empty path, 0, 0.0, false, None.
Config_default ==
  [model_dir |-> "", max_num_batched_tokens |-> 0, max_num_seqs |-> 0,
   max_model_len |-> 0, gpu_memory_utilization |-> "0.0",
   tensor_parallel_size |-> 0, enforce_eager |-> FALSE,
   kvcache_block_size |-> 0, hf_config |-> <<>>, eos_token_id |-> <<>>,
   num_kvcache_blocks |-> <<>>]

\* derive(Deserialize) on Config with the serde attributes of lines 26-106:
\* a field of the document is taken, a field it lacks gets the function
\* its `default = "..."` names (or the Default of its type for a bare
\* `default`), a skipped field gets the Default of its type.
Config_deserialize(doc) ==
  LET given(field, default) == IF field \in DOMAIN doc THEN doc[field] ELSE default
  IN  [model_dir |-> given("model_dir", ""),
       max_num_batched_tokens |->
         given("max_num_batched_tokens", default_max_num_batched_tokens),
       max_num_seqs |-> given("max_num_seqs", default_max_num_seqs),
       max_model_len |-> given("max_model_len", default_max_model_len),
       gpu_memory_utilization |->
         given("gpu_memory_utilization", default_gpu_memory_utilization),
       tensor_parallel_size |->
         given("tensor_parallel_size", default_tensor_parallel_size),
       enforce_eager |-> given("enforce_eager", FALSE),
       kvcache_block_size |->
         given("kvcache_block_size", default_kvcache_block_size),
       hf_config |-> <<>>, eos_token_id |-> <<>>, num_kvcache_blocks |-> <<>>]

\* The model directories: the state of their config.json.
ModelDirs ==
  { [path |-> "qwen", config_json |-> [kind |-> "valid", hf_config |-> "qwen2-0.5b"]],
    [path |-> "qwen7", config_json |-> [kind |-> "valid", hf_config |-> "qwen2-7b"]],
    [path |-> "bare", config_json |-> [kind |-> "missing", hf_config |-> ""]],
    [path |-> "broken", config_json |-> [kind |-> "invalid", hf_config |-> ""]] }

\* The documents a Config is deserialized from.
EmptyDoc == <<>>

ConfigDocs ==
  { EmptyDoc,
    [max_num_seqs |-> 8],
    [kvcache_block_size |-> 16],
    [enforce_eager |-> TRUE],
    [gpu_memory_utilization |-> "0.5"],
    [model_dir |-> "qwen", max_model_len |-> 2048],
    [model_dir |-> "qwen", max_num_batched_tokens |-> 1024, max_num_seqs |-> 8,
     max_model_len |-> 2048, gpu_memory_utilization |-> "0.5",
     tensor_parallel_size |-> 2, enforce_eager |-> TRUE,
     kvcache_block_size |-> 16] }

\* Config::new, lines 168-178.
Config_new(model_dir) ==
  IF model_dir.config_json.kind = "missing"
  THEN Err(Error("read", <<>>, <<model_dir.path>>))
  ELSE IF model_dir.config_json.kind = "invalid"
  THEN Err(Error("parse", <<>>, <<>>))
  ELSE Ok([Config_default EXCEPT
             !.model_dir = model_dir.path,
             !.hf_config = <<model_dir.config_json.hf_config>>])

NewConfig(model_dir) ==
  /\ Len(configs) < MaxConfigs
  /\ configs' = Append(configs, [by |-> "new", result |-> Config_new(model_dir)])
  /\ UNCHANGED <<ledger, alloc, context, loader, load, converted, batch>>

DeserializeConfig(doc) ==
  /\ Len(configs) < MaxConfigs
  /\ configs' = Append(configs, [by |-> "deserialize",
                                 result |-> Ok(Config_deserialize(doc))])
  /\ UNCHANGED <<ledger, alloc, context, loader, load, converted, batch>>

ConfigNext ==
  \/ \E model_dir \in ModelDirs : NewConfig(model_dir)
  \/ \E doc \in ConfigDocs : DeserializeConfig(doc)

SpecConfig == Init /\ [][ConfigNext]_vars

(***************************************************************************)
(* Properties.                                                             *)
(***************************************************************************)
Live == 1 .. Len(seqs)

\* The values built by Sequence::new (and their clones), as opposed to those
\* read from a saved state.
Built == {i \in Live : meta[i].origin = "new"}

\* ceil(n / d), by its definition: the least q with n <= q * d.
CeilDiv(n, d) == CHOOSE q \in 0 .. n : n <= q * d /\ (q = 0 \/ (q - 1) * d < n)

\* C1: the step in which Sequence::new returns, for a non-empty prompt,
\* yields a value with status Waiting, num_cached_tokens = 0, an empty
\* block_table and num_tokens = num_prompt_tokens = the prompt's length.
C1_NewInitialState ==
  [][\A t \in Threads :
        (thr[t].pc = "construct" /\ thr[t].token_ids # <<>> /\ thr'[t].pc = "idle")
        => /\ Len(seqs') = Len(seqs) + 1
           /\ LET s == seqs'[Len(seqs')]
                  prompt == thr[t].token_ids
              IN  /\ s.status = "Waiting"
                  /\ s.num_cached_tokens = 0
                  /\ s.block_table = <<>>
                  /\ s.num_tokens = Len(prompt)
                  /\ s.num_prompt_tokens = Len(prompt)
                  /\ s.token_ids = prompt]_vars

\* C1 witness: a value fresh from Sequence::new, built from a prompt of a
\* whole block.
C1_Witness ==
  \E i \in Built :
     /\ meta[i].appended = <<>>
     /\ Len(meta[i].prompt) = BLOCK_SIZE
     /\ seqs[i].num_tokens = BLOCK_SIZE
     /\ seqs[i].status = "Waiting"

\* C2: a call of Sequence::new with an empty prompt panics in the step that
\* makes the call, and that step leaves the counter and the Sequence values
\* as they were; every id handed out equals the number of ids handed out
\* before it, however many calls failed in between.
C2_EmptyPromptRejected ==
  [][/\ \A t \in Threads :
           (thr[t].pc = "idle" /\ thr'[t].pc # "idle" /\ thr'[t].token_ids = <<>>)
           => /\ thr'[t].pc = "panicked"
              /\ SEQ_COUNTER' = SEQ_COUNTER
              /\ seqs' = seqs
              /\ issued' = issued
     /\ Len(issued') = Len(issued) + 1
           => issued'[Len(issued')].id = Len(issued)]_vars

\* C2 witness: a creation failed, and a later one received the id that
\* follows the ids issued before the failure.
C2_Witness ==
  /\ \E t \in Threads : thr[t].pc = "panicked"
  /\ \E k \in 1 .. Len(issued) : issued[k].failures > 0 /\ issued[k].id = k - 1
  /\ \E i \in Built : seqs[i].seq_id = SEQ_COUNTER - 1

\* C3: the ids held by creations that run at the same time, and the ids of
\* the values Sequence::new has returned for different requests, are all
\* distinct.
C3_ConcurrentIdsDistinct ==
  /\ \A t, u \in Threads :
        (t # u /\ thr[t].pc = "construct" /\ thr[u].pc = "construct")
        => thr[t].seq_id # thr[u].seq_id
  /\ \A t \in Threads, i \in Built :
        thr[t].pc = "construct" => thr[t].seq_id # seqs[i].seq_id
  /\ \A i, j \in Built :
        meta[i].req # meta[j].req => seqs[i].seq_id # seqs[j].seq_id

\* C3 witness: both threads are inside Sequence::new holding an id, neither
\* has returned.
C3_Witness ==
  /\ thr["t1"].pc = "construct"
  /\ thr["t2"].pc = "construct"
  /\ thr["t1"].seq_id # thr["t2"].seq_id

\* C4: the ids next_seq_id returns are strictly increasing, and no two
\* Sequence values of the process that stand for different requests,
\* however obtained (created, cloned, deserialized), carry the same seq_id.
C4_IdsNeverReused ==
  /\ \A k \in 2 .. Len(issued) : issued[k].id > issued[k - 1].id
  /\ \A i, j \in Live :
        meta[i].req # meta[j].req => seqs[i].seq_id # seqs[j].seq_id

\* C5: for a value built by Sequence::new and mutated by append_token,
\* num_tokens is the length of the token buffer, num_prompt_tokens is at
\* most num_tokens, and the buffer is not empty.
C5_BufferInvariant ==
  \A i \in Built :
     /\ seqs[i].num_tokens = Len(seqs[i].token_ids)
     /\ seqs[i].num_prompt_tokens <= seqs[i].num_tokens
     /\ seqs[i].token_ids # <<>>

\* C5 witness: a built value that append_token has grown.
C5_Witness ==
  \E i \in Built :
     /\ Len(meta[i].appended) = MaxAppends
     /\ seqs[i].num_prompt_tokens < seqs[i].num_tokens

\* C6: after k calls of append_token on a value built by Sequence::new,
\* num_tokens is the prompt's length plus k, num_completion_tokens() is k,
\* and completion_token_ids() is the k appended tokens in order.
C6_AppendCounts ==
  \A i \in Built :
     LET k == Len(meta[i].appended)
     IN  /\ seqs[i].num_tokens = Len(meta[i].prompt) + k
         /\ num_completion_tokens(seqs[i]) = k
         /\ Len(completion_token_ids(seqs[i])) = k
         /\ completion_token_ids(seqs[i]) = meta[i].appended

\* C6 witness: two different tokens were appended, in this order.
C6_Witness ==
  \E i \in Built :
     /\ meta[i].appended = <<OrdinaryToken, EosToken>>
     /\ completion_token_ids(seqs[i]) = <<OrdinaryToken, EosToken>>

\* C7: no step changes what is already in the token buffer of a built
\* value: the old buffer is a prefix of the new one, num_prompt_tokens is
\* unchanged, and prompt_token_ids() stays the prompt given at creation.
C7_PromptImmutable ==
  [][/\ Len(seqs') >= Len(seqs)
     /\ \A i \in Built :
           /\ meta'[i].prompt = meta[i].prompt
           /\ seqs'[i].num_prompt_tokens = seqs[i].num_prompt_tokens
           /\ prompt_token_ids(seqs'[i]) = meta[i].prompt
           /\ Len(seqs'[i].token_ids) >= Len(seqs[i].token_ids)
           /\ SubSeq(seqs'[i].token_ids, 1, Len(seqs[i].token_ids))
                = seqs[i].token_ids]_vars

\* C7 witness: a three-token prompt is still in place after two appends.
C7_Witness ==
  \E i \in Built :
     /\ Len(meta[i].appended) = 2
     /\ Len(meta[i].prompt) = 3
     /\ prompt_token_ids(seqs[i]) = meta[i].prompt
     /\ seqs[i].token_ids = meta[i].prompt \o meta[i].appended

\* C9: a step that appends a token to seqs[i] changes token_ids (by
\* appending the token), num_tokens (by one) and last_token_id, and leaves
\* status, seq_id, num_prompt_tokens, num_cached_tokens, block_table,
\* temperature, max_tokens and ignore_eos as they were, for every token.
C9_AppendFrame ==
  [][\A i \in Live :
        Len(meta'[i].appended) = Len(meta[i].appended) + 1
        => LET old == seqs[i]
               new == seqs'[i]
               tok == meta'[i].appended[Len(meta'[i].appended)]
           IN  /\ new.token_ids = Append(old.token_ids, tok)
               /\ new.num_tokens = old.num_tokens + 1
               /\ new.last_token_id = tok
               /\ new.status = old.status
               /\ new.seq_id = old.seq_id
               /\ new.num_prompt_tokens = old.num_prompt_tokens
               /\ new.num_cached_tokens = old.num_cached_tokens
               /\ new.block_table = old.block_table
               /\ new.temperature = old.temperature
               /\ new.max_tokens = old.max_tokens
               /\ new.ignore_eos = old.ignore_eos]_vars

\* C9 witness: an end-of-sequence token was appended to a running value
\* that does not ignore it, and another value has reached its max_tokens;
\* neither is Finished.
C9_Witness ==
  /\ \E i \in Live :
        /\ seqs[i].status = "Running"
        /\ ~seqs[i].ignore_eos
        /\ meta[i].appended # <<>>
        /\ seqs[i].last_token_id = EosToken
  /\ \E j \in Live :
        /\ meta[j].appended # <<>>
        /\ num_completion_tokens(seqs[j]) >= seqs[j].max_tokens
        /\ seqs[j].status = "Waiting"

\* C10: with BLOCK_SIZE = 256, every built value has
\* num_blocks() = ceil(num_tokens / 256) >= 1 and last_block_num_tokens() =
\* num_tokens - (num_blocks() - 1) * 256 in 1 .. 256; 256 tokens are 1 block
\* with 256 tokens in the last block, 257 tokens are 2 blocks with 1.
C10_BlockArithmetic ==
  /\ BLOCK_SIZE = 256
  /\ \A i \in Built :
        LET s == seqs[i]
        IN  /\ num_blocks(s) = CeilDiv(s.num_tokens, 256)
            /\ num_blocks(s) >= 1
            /\ last_block_num_tokens(s) = s.num_tokens - (num_blocks(s) - 1) * 256
            /\ last_block_num_tokens(s) \in 1 .. 256
            /\ s.num_tokens = 256
                  => num_blocks(s) = 1 /\ last_block_num_tokens(s) = 256
            /\ s.num_tokens = 257
                  => num_blocks(s) = 2 /\ last_block_num_tokens(s) = 1

\* C10 witness: one value of 256 tokens and one of 257.
C10_Witness ==
  /\ \E i \in Built : seqs[i].num_tokens = 256 /\ num_blocks(seqs[i]) = 1
  /\ \E j \in Built : seqs[j].num_tokens = 257 /\ last_block_num_tokens(seqs[j]) = 1

\* C11: for a built value, block(i) is a slice of BLOCK_SIZE tokens for
\* every i below the last block, a slice of last_block_num_tokens() tokens
\* for the last block, and a panic for every i >= num_blocks(); it is never
\* an empty or shortened slice.
C11_BlockLengths ==
  \A k \in Built :
     LET s == seqs[k]
         nb == num_blocks(s)
     IN  \A i \in 0 .. nb + 2 :
            /\ i < nb - 1 => block(s, i) # <<>> /\ Len(block(s, i)[1]) = BLOCK_SIZE
            /\ i = nb - 1 => /\ block(s, i) # <<>>
                             /\ Len(block(s, i)[1]) = last_block_num_tokens(s)
                             /\ Len(block(s, i)[1]) > 0
            /\ i >= nb => block(s, i) = <<>>

\* C11 witness: a value of 257 tokens with a full block, a last block of
\* one token and a panic at num_blocks(), beside a value of exactly one
\* full block, where block(1) panics too.
C11_Witness ==
  /\ \E k \in Built :
        /\ seqs[k].num_tokens = BLOCK_SIZE + 1
        /\ Len(block(seqs[k], 0)[1]) = BLOCK_SIZE
        /\ Len(block(seqs[k], 1)[1]) = 1
        /\ block(seqs[k], 2) = <<>>
  /\ \E k \in Built :
        /\ seqs[k].num_tokens = BLOCK_SIZE
        /\ block(seqs[k], 1) = <<>>

\* C14: for a built value, indexing by p returns the token at position p of
\* the buffer (the prompt followed by the appended tokens) for every
\* p < num_tokens and panics for every p >= num_tokens.
C14_IndexBounds ==
  \A k \in Built :
     LET s == seqs[k]
         np == Len(meta[k].prompt)
     IN  \A p \in 0 .. s.num_tokens + 2 :
            index(s, p) =
              IF p < np THEN <<meta[k].prompt[p + 1]>>
              ELSE IF p < s.num_tokens THEN <<meta[k].appended[p - np + 1]>>
              ELSE <<>>

\* C14 witness: the last position holds the appended end-of-sequence token,
\* the first one the prompt's first token, and the next position panics.
C14_Witness ==
  \E k \in Built :
     /\ meta[k].appended # <<>>
     /\ index(seqs[k], seqs[k].num_tokens - 1) = <<EosToken>>
     /\ index(seqs[k], 0) = <<meta[k].prompt[1]>>
     /\ index(seqs[k], seqs[k].num_tokens) = <<>>

\* C12: in every state reached by creation, append_token and the
\* allocator's advances, 0 <= num_cached_tokens <= num_tokens; a step that
\* appends a token leaves num_cached_tokens as it was and does not lower
\* num_tokens.
C12_CachedWithinBounds ==
  [][\A i \in 1 .. Len(seqs') :
        /\ 0 <= seqs'[i].num_cached_tokens
        /\ seqs'[i].num_cached_tokens <= seqs'[i].num_tokens
        /\ (i <= Len(seqs)
            /\ Len(meta'[i].appended) = Len(meta[i].appended) + 1)
           => /\ seqs'[i].num_cached_tokens = seqs[i].num_cached_tokens
              /\ seqs'[i].num_tokens >= seqs[i].num_tokens
              /\ seqs'[i].num_tokens > seqs'[i].num_cached_tokens]_vars

\* C12 witness: a value whose tokens were all cached received one more
\* token, which is not cached yet.
C12_Witness ==
  \E i \in Live :
     /\ meta[i].appended # <<>>
     /\ seqs[i].num_cached_tokens > BLOCK_SIZE
     /\ seqs[i].num_cached_tokens = seqs[i].num_tokens - 1

\* C13: for a value the allocator has served, block_table has
\* ceil(num_tokens / BLOCK_SIZE) entries from the allocator's call until the
\* next append, and between that append and the allocator's next call
\* num_blocks() - block_table.len() is 0 or 1.
C13_BlockTableLag ==
  \A i \in Live :
     LET s == seqs[i]
         lag == num_blocks(s) - Len(s.block_table)
     IN  /\ (i \in alloc.served /\ i \notin alloc.pending)
            => Len(s.block_table) = CeilDiv(s.num_tokens, BLOCK_SIZE)
         /\ (i \in alloc.served /\ i \in alloc.pending)
            => /\ lag \in {0, 1}
               /\ CeilDiv(s.num_tokens, BLOCK_SIZE) - Len(s.block_table) \in {0, 1}

\* C13 witness: an append crossed a block boundary and the allocator has
\* not been called since, while another appended value needs no new block.
C13_Witness ==
  /\ \E i \in alloc.pending :
        /\ Len(seqs[i].block_table) >= 1
        /\ num_blocks(seqs[i]) - Len(seqs[i].block_table) = 1
  /\ \E j \in alloc.pending :
        /\ Len(seqs[j].block_table) >= 1
        /\ num_blocks(seqs[j]) - Len(seqs[j].block_table) = 0

(***************************************************************************)
(* Properties of the context slot.                                         *)
(***************************************************************************)
\* The get_context call of thread t returns in this step.
GetReturns(t) == call[t].pc = "get_return" /\ call'[t].pc = "idle"

\* C15: a get_context that returns after a set_context(snapshot), with no
\* other set_context having taken the lock since, returns the snapshot
\* field for field, whatever the number of get_context calls that returned
\* in between.
C15_RoundTrip ==
  [][\A t \in Threads :
       GetReturns(t) /\ hist.written # <<>>
         => /\ call'[t].ret # <<>>
            /\ \A f \in ContextFields : call'[t].ret[1][f] = hist.written[1][f]]_vars

\* Two or more get_context calls returned since DecodeArgs or
\* CachedPrefillArgs was set, and the last of them returned it with its
\* block tables.
C15_Witness ==
  /\ hist.written # <<>>
  /\ hist.written[1].block_tables # <<>>
  /\ hist.gets >= 2
  /\ \E t \in hist.fresh : call[t].ret = hist.written

\* C16: set_context replaces the slot and never merges.  After set(B) that
\* followed set(A), once B's call has returned the slot holds exactly B, and
\* every get_context that returned since gives B's value in every field; an
\* optional field absent in B is absent in the result even if A had it.
C16_FullReplace ==
  hist.written # <<>> /\ hist.prev # <<>>
    => LET B == hist.written[1]
       IN  /\ mutex = <<>> => CONTEXT = <<B>>
           /\ \A t \in hist.fresh :
                /\ \A f \in ContextFields : call[t].ret[1][f] = B[f]
                /\ \A f \in OptionalFields :
                     B[f] = <<>> => call[t].ret[1][f] = <<>>

\* A decode step was set after a prefill step: cu_seqlens_q was present and
\* is now absent, in the slot and in what a get_context returned.
C16_Witness ==
  /\ hist.prev = <<PrefillArgs>>
  /\ hist.written = <<DecodeArgs>>
  /\ CONTEXT # <<>>
  /\ CONTEXT[1].cu_seqlens_q = <<>>
  /\ \E t \in hist.fresh : call[t].ret[1].cu_seqlens_q = <<>>

\* What a get_context returns when the last set_context to take the lock
\* had the arguments in w (none if w is empty).
Whole(w) == IF w = <<>> THEN Context_default ELSE w[1]

\* C17: under every interleaving of concurrent calls, what a get_context
\* returned is the default snapshot or the complete snapshot of one
\* set_context call, the last one that had taken the lock when the
\* get_context took it; it is never a mixture of two.  (While a thread is
\* inside get_context with the lock, hist.seen is of the running call and
\* ret of the one before.)
C17_AtomicLastWriter ==
  \A t \in Threads :
    call[t].ret # <<>> /\ call[t].pc \notin {"get_copy", "get_return"}
      => /\ call[t].ret[1] \in {Context_default} \cup Snapshots
         /\ call[t].ret[1] = Whole(hist.seen[t])

\* A thread is in the middle of overwriting the slot, which holds a mixture
\* of two snapshots, while another thread waits for the mutex in
\* get_context, having got a complete snapshot from its previous call.
C17_Witness ==
  \E t, u \in Threads :
    /\ t # u
    /\ call[t].pc = "set_return"
    /\ CONTEXT[1] \notin {Context_default} \cup Snapshots
    /\ call[u].pc = "get_lock"
    /\ call[u].ret # <<>>
    /\ call[u].ret[1] \in Snapshots

\* C18: a get_context that returns before any set_context took the lock
\* returns is_prefill = false, both maxima 0, and the five optional fields
\* absent.
C18_DefaultBeforeSet ==
  hist.written = <<>>
    => \A t \in hist.fresh :
         /\ call[t].ret # <<>>
         /\ call[t].ret[1].is_prefill = FALSE
         /\ call[t].ret[1].max_seqlen_q = 0
         /\ call[t].ret[1].max_seqlen_k = 0
         /\ \A f \in OptionalFields : call[t].ret[1][f] = <<>>

\* Both threads got a result and nothing has been set; one of them has
\* called set_context and has not taken the lock yet.
C18_Witness ==
  /\ hist.written = <<>>
  /\ hist.fresh = Threads
  /\ \E t \in Threads : call[t].pc = "set_lock"

Matching(tensor_name, mapping) ==
  {pattern \in DOMAIN mapping : Contains(tensor_name, pattern)}

\* The outcomes of the resolutions of the name so far.
Outcomes(tensor_name) ==
  {r.out : r \in {x \in loader.seen : x.tensor_name = tensor_name}}

\* The iteration orders under which it was resolved.
OrdersSeen(tensor_name) ==
  {r.order : r \in {x \in loader.seen : x.tensor_name = tensor_name}}

\* C20: when exactly one pattern of the mapping is a substring of the
\* tensor name, all resolutions of the name give one outcome whatever the
\* iteration order: the shard index of that pattern, and the name with the
\* pattern replaced by its replacement.  With q_proj -> (qkv_proj, 0) and
\* k_proj -> (qkv_proj, 1), layer0.q_proj.weight gives
\* (layer0.qkv_proj.weight, 0) and layer0.k_proj.weight gives
\* (layer0.qkv_proj.weight, 1).
C20_ResolutionDeterministic ==
  /\ loader.packed # <<>> =>
       \A n \in TensorNames :
         LET mapping == loader.packed[1]
         IN  Cardinality(Matching(n, mapping)) = 1 =>
               LET pattern == CHOOSE q \in Matching(n, mapping) : TRUE
               IN  /\ Cardinality(Outcomes(n)) <= 1
                   /\ \A out \in Outcomes(n) :
                        /\ out.shard_id = <<mapping[pattern].shard_id>>
                        /\ ~Contains(out.param_name, pattern)
                             \/ Contains(mapping[pattern].replacement, pattern)
                        /\ \E i \in 0 .. Len(n) - Len(pattern) :
                             /\ SubSeq(n, i + 1, i + Len(pattern)) = pattern
                             /\ SubSeq(out.param_name, 1,
                                       i + Len(mapping[pattern].replacement))
                                  = SubSeq(n, 1, i) \o mapping[pattern].replacement
  /\ loader.packed = <<QkMapping>> =>
       /\ Outcomes(layer0_q_proj_weight) \subseteq
            {[param_name |-> layer0_qkv_proj_weight, shard_id |-> <<0>>]}
       /\ Outcomes(layer0_k_proj_weight) \subseteq
            {[param_name |-> layer0_qkv_proj_weight, shard_id |-> <<1>>]}

\* With the mapping of the example, both names were resolved under both
\* iteration orders.
C20_Witness ==
  /\ loader.packed = <<QkMapping>>
  /\ Cardinality(OrdersSeen(layer0_q_proj_weight)) = 2
  /\ Cardinality(OrdersSeen(layer0_k_proj_weight)) = 2
  /\ Outcomes(layer0_q_proj_weight) =
       {[param_name |-> layer0_qkv_proj_weight, shard_id |-> <<0>>]}
  /\ Outcomes(layer0_k_proj_weight) =
       {[param_name |-> layer0_qkv_proj_weight, shard_id |-> <<1>>]}

\* With patterns that are not mutually exclusive the outcome depends on the
\* iteration order: layer0.q_proj.weight has two outcomes under
\* NestedMapping.
NestedOutcomesDiffer ==
  /\ loader.packed = <<NestedMapping>>
  /\ Cardinality(Outcomes(layer0_q_proj_weight)) = 2

(***************************************************************************)
(* Properties of load_model.                                               *)
(***************************************************************************)
\* The calls of load_weight made so far, as a set of positions.
Calls == 1 .. Len(load.calls)

\* C21: a tensor whose name contains no pattern of the model's mapping, or
\* that is loaded into a model with no mapping, is given to load_weight
\* under its own name and with no shard index.
C21_UnmatchedNameUnchanged ==
  \A c \in Calls :
    (load.packed = <<>> \/ Matching(load.calls[c].tensor_name, load.packed[1]) = {})
      => /\ load.calls[c].name = load.calls[c].tensor_name
         /\ load.calls[c].shard_id = <<>>

\* The model maps q_proj and k_proj; layer0.o_proj.weight was delivered
\* under its own name with no shard index, after layer0.q_proj.weight was
\* delivered as shard 0 of layer0.qkv_proj.weight.
C21_Witness ==
  /\ load.packed = <<QkMapping>>
  /\ \E c, d \in Calls :
       /\ c < d
       /\ load.calls[c].tensor_name = layer0_q_proj_weight
       /\ load.calls[c].name = layer0_qkv_proj_weight
       /\ load.calls[c].shard_id = <<0>>
       /\ load.calls[d].tensor_name = layer0_o_proj_weight
       /\ load.calls[d].name = layer0_o_proj_weight
       /\ load.calls[d].shard_id = <<>>

\* process_tensor has called load_weight in this step.
Delivers == Len(load'.calls) = Len(load.calls) + 1

\* C22: when load_weight reports that the parameter is not in the model,
\* process_tensor prints one warning and returns Ok: the load goes on with
\* the tensors and files that remain, and an error the load returns is
\* never about a parameter that was not found.
C22_NotFoundOnlyWarns ==
  [][/\ Delivers =>
         LET c == load'.calls[Len(load'.calls)]
             m == load.model[1]
         IN  (c.name \notin m.params /\ c.name \notin m.failing)
               => (/\ load'.pc \in {"tensors", "files"}
                   /\ load'.result = <<>>
                   /\ load'.warnings = Append(load.warnings, c.name)
                   /\ load'.todo = load.todo \ {c.tensor_name}
                   /\ load'.entries = load.entries)
     /\ (load'.result # <<>> /\ ~load'.result[1].ok)
          => (\/ load'.result[1].error[1].kind
                   \in {"glob", "read", "deserialize", "unsupported dtype"}
              \/ /\ load'.result[1].error[1].kind = "load_weight"
                 /\ load'.result[1].error[1].tensor[1] \in load'.model[1].failing)
     /\ (load'.result # <<>> /\ load'.result[1].ok)
          => (Len(load'.warnings) =
                Cardinality({c \in 1 .. Len(load'.calls) :
                               load'.calls[c].name \notin load'.model[1].params}))]_vars

\* A load has returned Ok after two warnings for layer0.o_proj.weight, one
\* in each file, and after delivering the tensors that followed the first.
C22_Witness ==
  /\ load.pc = "returned"
  /\ load.result = <<Ok("unit")>>
  /\ load.warnings = <<layer0_o_proj_weight, layer0_o_proj_weight>>
  /\ \E c, d \in Calls :
       /\ c < d
       /\ load.calls[c].name = layer0_o_proj_weight
       /\ load.calls[c].file = "attn.safetensors"
       /\ load.calls[d].file = "attn.safetensors"
       /\ load.calls[d].name = layer0_qkv_proj_weight
  /\ Len(load.calls) = 5

\* The on-disk element types that convert_dtype maps to a runtime type.
SupportedOnDisk == {"F32", "F16", "BF16", "I64", "I32", "U8", "I8", "BOOL"}

\* The load returns in this step with the error of an unsupported dtype.
AbortsOnDtype ==
  /\ load.result = <<>>
  /\ load'.result # <<>>
  /\ ~load'.result[1].ok
  /\ load'.result[1].error[1].kind = "unsupported dtype"

\* C23: a tensor of an unsupported on-disk type makes the load return an
\* error that names the tensor; load_weight is not called for it, and no
\* tensor or file is processed after it.  A tensor that was processed
\* without ending the load had a supported type.
C23_UnsupportedDtypeAborts ==
  [][/\ AbortsOnDtype =>
         (/\ load.pc = "tensors"
          /\ load'.pc = "returned"
          /\ load'.calls = load.calls
          /\ \E n \in load.todo :
               /\ load'.result[1].error[1].tensor = <<n>>
               /\ load.views[n].dtype \notin SupportedOnDisk)
     /\ (load.pc = "tensors" /\ load'.pc # "returned") =>
          \A n \in load.todo \ load'.todo : load.views[n].dtype \in SupportedOnDisk
     /\ load.pc = "returned" => load' = load]_vars

\* The load has returned the error for layer0.up_proj.weight, stored as
\* F64: the tensor that came before it was delivered, this one was not, and
\* the second file was not opened.
C23_Witness ==
  /\ load.pc = "returned"
  /\ load.result = <<Err(Error("unsupported dtype", <<layer0_up_proj_weight>>, <<>>))>>
  /\ Len(load.calls) = 1
  /\ load.calls[1].tensor_name = layer0_q_proj_weight
  /\ load.file = <<"double.safetensors">>
  /\ Len(load.entries) = 1

\* The load was given something that cannot be read: a path that does not
\* exist, a directory that cannot be listed, or a directory in which it
\* reached a file that cannot be read or is not a valid container.
MetUnreadable ==
  /\ load.dir # <<>>
  /\ \/ load.dir[1].kind \in {"missing", "unreadable"}
     \/ /\ load.entries # <<>>
        /\ Head(load.entries).ok
        /\ Head(load.entries).value[1].kind \in {"unreadable", "malformed"}
        /\ load.pc = "returned"

\* C24: a load that has returned after it met a missing or unreadable
\* directory, or an unreadable or malformed file, has returned an error
\* that carries the path of the file or of the directory.
C24_UnreadableIsFatal ==
  (load.pc = "returned" /\ MetUnreadable)
    => /\ ~load.result[1].ok
       /\ load.result[1].error[1].path # <<>>

\* C25: the element-type mapping is fixed and total on the supported
\* on-disk types: F32 to F32, F16 to F16, BF16 to BF16, I64 to I64, I32 to
\* U32, and U8, I8 and BOOL to U8; every other on-disk type gives an error
\* and no runtime type.
C25_DtypeMapping ==
  \A c \in converted :
    LET expected == [F32 |-> "F32", F16 |-> "F16", BF16 |-> "BF16",
                     I64 |-> "I64", I32 |-> "U32", U8 |-> "U8",
                     I8 |-> "U8", BOOL |-> "U8"]
    IN  IF c.dtype \in DOMAIN expected
        THEN /\ c.result.ok
             /\ c.result.value = <<expected[c.dtype]>>
             /\ expected[c.dtype] \in DTypes
        ELSE /\ ~c.result.ok
             /\ c.result.value = <<>>
             /\ c.result.error[1].tensor = <<c.tensor_name>>

C25_Witness ==
  /\ \E c \in converted : c.dtype = "I32" /\ c.result.value = <<"U32">>
  /\ \E c \in converted : c.dtype = "I8" /\ c.result.value = <<"U8">>
  /\ \E c \in converted : c.dtype = "F64" /\ ~c.result.ok

\* C26: every Config that Config::new built carries the documented
\* defaults in the fields its caller does not give (16384, 512, 4096, 0.9,
\* 1, false, 256), the values a Config deserialized from an empty document
\* has.
C26_NewCarriesDefaults ==
  \A i \in 1 .. Len(configs) :
    (configs[i].by = "new" /\ configs[i].result.ok) =>
      LET config == configs[i].result.value[1]
          empty  == Config_deserialize(EmptyDoc)
      IN  /\ config.max_num_batched_tokens = 16384
          /\ config.max_num_seqs = 512
          /\ config.max_model_len = 4096
          /\ config.gpu_memory_utilization = "0.9"
          /\ config.tensor_parallel_size = 1
          /\ config.enforce_eager = FALSE
          /\ config.kvcache_block_size = 256
          /\ \A field \in ConfigFields \ {"model_dir"} :
               config[field] = empty[field]

\* C27: the cached last_token_id is the final element of the token buffer:
\* the last prompt token of a value just created, the most recently
\* appended token after append_token calls.
C27_LastTokenCached ==
  \A i \in Built :
    LET s == seqs[i]
    IN  /\ s.token_ids # <<>>
        /\ s.last_token_id = s.token_ids[Len(s.token_ids)]
        /\ s.last_token_id =
             IF meta[i].appended = <<>>
             THEN meta[i].prompt[Len(meta[i].prompt)]
             ELSE meta[i].appended[Len(meta[i].appended)]

C27_Witness ==
  \E i \in Built :
    /\ meta[i].prompt = <<7, 8, 9>>
    /\ meta[i].appended = <<EosToken, OrdinaryToken>>
    /\ seqs[i].last_token_id = OrdinaryToken

\* C28: the slot protects each call and not the batch step.  When a thread
\* has finished set_context(own snapshot) followed by get_context, what it
\* got is one complete snapshot, its own or the other thread's: the one of
\* the last set_context to take the lock before its get_context did, which
\* is the other thread's whenever that thread's set_context came between.
C28_StepNotSerialized ==
  \A t \in Threads :
    batch[t] = "done" =>
      /\ call[t].ret # <<>>
      /\ call[t].ret[1] \in {OwnSnapshot(u) : u \in Threads}
      /\ call[t].ret[1] = Whole(hist.seen[t])
      /\ hist.seen[t] # <<OwnSnapshot(t)>> => call[t].ret[1] # OwnSnapshot(t)

\* A thread's get_context returned the other thread's snapshot and not the
\* one it had just set.
C28_Witness ==
  \E t, u \in Threads :
    /\ t # u
    /\ batch[t] = "done"
    /\ call[t].ret = <<OwnSnapshot(u)>>
    /\ call[t].ret # <<OwnSnapshot(t)>>

\* The blocks 0 .. n-1 of s one after the other.
RECURSIVE ConcatBlocks(_, _)
ConcatBlocks(s, n) ==
  IF n = 0 THEN <<>> ELSE ConcatBlocks(s, n - 1) \o block(s, n - 1)[1]

\* C29: the logical blocks partition the token buffer.  For every built
\* value, block(i) for i below num_blocks() is exactly the tokens at
\* positions i*BLOCK_SIZE up to min((i+1)*BLOCK_SIZE, num_tokens), the
\* position ranges of two blocks do not meet, no block is empty, and the
\* blocks in index order add up to the whole buffer.
C29_BlocksPartition ==
  \A k \in Built :
    LET s      == seqs[k]
        buffer == meta[k].prompt \o meta[k].appended
        nb     == num_blocks(s)
        lo(i)  == i * BLOCK_SIZE
        hi(i)  == Min((i + 1) * BLOCK_SIZE, s.num_tokens)
    IN  /\ \A i \in 0 .. nb - 1 :
             /\ block(s, i) # <<>>
             /\ lo(i) < hi(i)
             /\ block(s, i)[1] = [j \in 1 .. hi(i) - lo(i) |-> buffer[lo(i) + j]]
             /\ \A j \in i + 1 .. nb - 1 : hi(i) <= lo(j)
        /\ ConcatBlocks(s, nb) = buffer
        /\ s.token_ids = buffer

\* A value of two full blocks and one appended token: three blocks, the
\* second starting at the prompt's token of position BLOCK_SIZE, the third
\* holding the appended token alone.
C29_Witness ==
  \E k \in Built :
    /\ meta[k].prompt = Ramp(2 * BLOCK_SIZE)
    /\ meta[k].appended = <<EosToken>>
    /\ num_blocks(seqs[k]) = 3
    /\ block(seqs[k], 1)[1][1] = 1000 + BLOCK_SIZE + 1
    /\ block(seqs[k], 2) = << <<EosToken>> >>

\* The load_weight calls made for the tensor n of the file f.
CallsFor(f, n) ==
  {c \in Calls : load.calls[c].file = f.path /\ load.calls[c].tensor_name = n}

\* C30: when a load has returned success, every named tensor of every file
\* of the directory was given to load_weight exactly once, under its
\* resolved name and shard index and with its converted content; no tensor
\* was skipped, none was delivered twice, and nothing else was delivered.
C30_EveryTensorOnce ==
  (load.pc = "returned" /\ load.result[1].ok) =>
    LET files == load.dir[1].files
    IN  /\ \A k \in 1 .. Len(files) :
             /\ files[k].kind = "tensors"
             /\ \A n \in DOMAIN files[k].views :
                  /\ Cardinality(CallsFor(files[k], n)) = 1
                  /\ \A c \in CallsFor(files[k], n) :
                       /\ \E order \in OrdersOf(load.packed) :
                            LET to == resolve(n, load.packed, order)
                            IN  /\ load.calls[c].name = to.param_name
                                /\ load.calls[c].shard_id = to.shard_id
                       /\ load.calls[c].weight =
                            create_tensor(files[k].views[n], n).value
        /\ \A c \in Calls :
             \E k \in 1 .. Len(files) :
               /\ load.calls[c].file = files[k].path
               /\ load.calls[c].tensor_name \in DOMAIN files[k].views

\* The load of the directory of two files returned success: five calls,
\* layer0.o_proj.weight delivered once from each file, and the tensor of
\* the second file that the mapping does not name delivered too.
C30_Witness ==
  /\ load.pc = "returned"
  /\ load.result[1].ok
  /\ load.dir[1].path = "weights"
  /\ Len(load.calls) = 5
  /\ \E c, d \in Calls :
       /\ load.calls[c].file = "attn.safetensors"
       /\ load.calls[d].file = "mlp.safetensors"
       /\ load.calls[c].tensor_name = layer0_o_proj_weight
       /\ load.calls[d].tensor_name = layer0_o_proj_weight
       /\ load.calls[c].weight # load.calls[d].weight
  /\ \E c \in Calls : load.calls[c].tensor_name = layer0_up_proj_weight

\* load_model returns an error in this step.
Aborts == load.pc \in {"files", "tensors"} /\ load'.pc = "returned" /\ ~load'.result[1].ok

\* The calls the model had received are still the first calls it has
\* received after the step.
KeepsCalls ==
  /\ Len(load'.calls) >= Len(load.calls)
  /\ SubSeq(load'.calls, 1, Len(load.calls)) = load.calls

\* The load_weight calls made for the file of the path p.
CallsOfFile(p) == {c \in Calls : load.calls[c].file = p}

\* C31: load is not atomic.  The step in which the load aborts keeps every
\* load_weight call the model had received (adding at most the call that
\* failed, as the last one); no step of a load takes a call back; once the
\* load has returned nothing more is delivered, so an aborted load has no
\* call for any file after the one it failed in, and at most the failed
\* call for the tensors it had not yet processed.
C31_AbortKeepsDelivered ==
  [][ /\ Aborts =>
          (/\ KeepsCalls
           /\ Len(load'.calls) \in {Len(load.calls), Len(load.calls) + 1}
           /\ Delivers <=> load'.result[1].error[1].kind = "load_weight"
           /\ Delivers => load'.result[1].error[1].tensor =
                             <<load'.calls[Len(load'.calls)].name>>)
      /\ load.pc # "idle" => KeepsCalls
      /\ load.pc = "returned" => load' = load
      /\ (load.pc = "returned" /\ ~load.result[1].ok) =>
           (/\ \A k \in 1 .. Len(load.entries) :
                 load.entries[k].ok =>
                   CallsOfFile(load.entries[k].value[1].path) = {}
            /\ \A n \in load.todo :
                 \A c \in Calls :
                   (load.calls[c].file = load.file[1] /\ load.calls[c].tensor_name = n)
                     => (c = Len(load.calls)
                         /\ load.result[1].error[1].kind = "load_weight"))]_vars

\* A load aborted on a file it could not read after it had delivered the
\* three tensors of the file before, and they are still delivered; the file
\* after the unreadable one was never opened.
C31_Witness ==
  /\ load.pc = "returned"
  /\ ~load.result[1].ok
  /\ load.result[1].error[1].kind = "read"
  /\ Len(load.calls) = 3
  /\ \A c \in Calls : load.calls[c].file = "attn.safetensors"
  /\ CallsOfFile("mlp.safetensors") = {}

\* The starts (from 0) of the occurrences of pattern in s that str::replace
\* takes: the leftmost one at or after position i, then the leftmost one
\* after its end, and so on.
RECURSIVE Occurrences(_, _, _)
Occurrences(s, pattern, i) ==
  IF i + Len(pattern) > Len(s) THEN {}
  ELSE IF SubSeq(s, i + 1, i + Len(pattern)) = pattern
       THEN {i} \cup Occurrences(s, pattern, i + Len(pattern))
       ELSE Occurrences(s, pattern, i + 1)

\* The occurrences among them that start before position p of s.
Before(s, pattern, p) == {i \in Occurrences(s, pattern, 0) : i < p}

\* The pattern that a resolution under this iteration order matches: the
\* first one in the order that the name contains.
Matched(tensor_name, order) ==
  order[CHOOSE i \in DOMAIN order :
          /\ Contains(tensor_name, order[i])
          /\ \A j \in 1 .. i - 1 : ~Contains(tensor_name, order[j])]

\* C32: when a pattern matches the tensor name, every non-overlapping
\* occurrence of it in the name is replaced by the replacement, and the
\* shard index is that of the one matched pattern.  The resolved name has
\* the replacement where each occurrence started, the characters outside
\* the occurrences where they were (moved by the replacements before
\* them), and nothing else.
C32_EveryOccurrenceReplaced ==
  \A r \in loader.seen :
    (loader.packed # <<>> /\ Matching(r.tensor_name, loader.packed[1]) # {}) =>
      LET n       == r.tensor_name
          pattern == Matched(n, r.order)
          to      == loader.packed[1][pattern].replacement
          occ     == Occurrences(n, pattern, 0)
          grow    == Len(to) - Len(pattern)
          out     == r.out.param_name
      IN  /\ r.out.shard_id = <<loader.packed[1][pattern].shard_id>>
          /\ occ # {}
          /\ Len(out) = Len(n) + Cardinality(occ) * grow
          /\ \A i \in occ :
               LET at == i + Cardinality(Before(n, pattern, i)) * grow
               IN  SubSeq(out, at + 1, at + Len(to)) = to
          /\ \A p \in 0 .. Len(n) - 1 :
               (\A i \in occ : p < i \/ p >= i + Len(pattern)) =>
                 out[p + 1 + Cardinality(Before(n, pattern, p)) * grow] = n[p + 1]

\* q_proj.q_proj was resolved under the mapping of q_proj and k_proj: both
\* occurrences of q_proj were replaced, and the shard index is that of
\* q_proj.
C32_Witness ==
  /\ loader.packed = <<QkMapping>>
  /\ \E r \in loader.seen :
       /\ r.tensor_name = q_proj_q_proj
       /\ Cardinality(Occurrences(r.tensor_name, q_proj, 0)) = 2
       /\ r.out.param_name = qkv_proj \o <<".">> \o qkv_proj
       /\ r.out.shard_id = <<0>>

============================================================================
